---------------------------- MODULE Spec2Model ----------------------------
(***************************************************************************)
(* A model of MarkdownParser (src/out/markdown-parser.js): the front       *)
(* matter extractor and the Markdown -> HTML pipeline of convertToHtml.    *)
(*                                                                         *)
(* Text is a TLA+ string, one character per position, "\n" included, as    *)
(* in the JavaScript source.  Every regular expression of the source is    *)
(* written out as the matcher the JavaScript engine runs for it (leftmost  *)
(* match, greedy or lazy quantifiers with their backtracking).             *)
(***************************************************************************)
EXTENDS Integers, Sequences, FiniteSets, TLC

VARIABLES
    pc,                 \* position of the call being modelled
    markdown,           \* parse: the document handed to parse()
    metadata,           \* parse: metadata returned by extractYamlHeader
    html,               \* parse: the text flowing through convertToHtml
    lines,              \* block stages: text.split('\n')
    i,                  \* block stages: loop index (0-based, as in the source)
    result,             \* block stages: the result array
    listStack,          \* processListsImproved: open list frames
    pendingLiClose,     \* processListsImproved: <li> waiting for </li>
    inTable,            \* processTables
    isHeaderProcessed,  \* processTables
    currentParagraph,   \* processParagraphsImproved
    returned,           \* what the calls of parse on this instance returned
    title,              \* postArticle: the title handed to postArticle()
    existingPost,       \* postArticle: what findExistingPost returned
    postData,           \* postArticle: the post about to be written
    calls,              \* the requests made to the site and to the file
                        \* system, each with the answer it got
    matches,            \* processMarkdownImages: the matches of imagePattern
    processedMarkdown   \* processMarkdownImages

\* The variables of WordPressClient and ImageUploader.
remoteVars ==
    <<title, existingPost, postData, calls, matches, processedMarkdown>>

\* null where a post is expected; the posts of the site have other ids.
NoPost == [id |-> 0, rendered |-> "", raw |-> ""]

\* postData before postArticle builds it.
NoPostData == [id |-> 0, title |-> "", categories |-> <<>>, tags |-> <<>>]

vars == <<pc, markdown, metadata, html, lines, i, result, listStack,
          pendingLiClose, inTable, isHeaderProcessed, currentParagraph,
          returned, remoteVars>>

\* No call of postArticle or processMarkdownImages is under way.
RemoteIdle ==
    /\ title = ""
    /\ existingPost = NoPost
    /\ postData = NoPostData
    /\ calls = <<>>
    /\ matches = <<>>
    /\ processedMarkdown = ""

-----------------------------------------------------------------------------
(* Characters and the JavaScript string primitives the source uses.        *)

\* U+3000 IDEOGRAPHIC SPACE.  The module text is ASCII, so the full-width
\* space is written as the form feed, which no input below contains in its
\* own right.  Both are white space to \s and to trim().
FW == "\f"

\* U+0060 GRAVE ACCENT, which a TLA+ string cannot hold: the circumflex stands
\* for it.  No regular expression of the source mentions the circumflex as a
\* character, and no input below contains one in its own right.
BT == "^"

\* The code fence marker: three grave accents.
Fence == BT \o BT \o BT

\* s.substring(a - 1, b): positions a..b of s (1-based), clipped to the string.
Sub(s, a, b) ==
    LET lo == IF a < 1 THEN 1 ELSE a
        hi == IF b > Len(s) THEN Len(s) ELSE b
    IN  IF lo > hi THEN "" ELSE SubSeq(s, lo, hi)

\* The character at position k; "" outside the string.
Ch(s, k) == Sub(s, k, k)

\* \s of a JavaScript regular expression, and the characters trim() strips.
WsChars == {" ", "\t", "\n", "\r", FW}

IsWs(c) == c \in WsChars

\* \d
DigitChars == {"0", "1", "2", "3", "4", "5", "6", "7", "8", "9"}

IsDigit(c) == c \in DigitChars

\* [a-zA-Z]
AlphaChars ==
         {"a", "b", "c", "d", "e", "f", "g", "h", "i", "j", "k", "l", "m",
           "n", "o", "p", "q", "r", "s", "t", "u", "v", "w", "x", "y", "z",
           "A", "B", "C", "D", "E", "F", "G", "H", "I", "J", "K", "L", "M",
           "N", "O", "P", "Q", "R", "S", "T", "U", "V", "W", "X", "Y", "Z"}

IsAlpha(c) == c \in AlphaChars

\* \w
WordChars == AlphaChars \cup DigitChars \cup {"_"}

\* The least and the greatest element of a non-empty set of integers.
MinOfSet(S) == CHOOSE x \in S : \A y \in S : x <= y

MaxOfSet(S) == CHOOSE x \in S : \A y \in S : x >= y

StartsWithAt(s, k, pat) == Sub(s, k, k + Len(pat) - 1) = pat

StartsWith(s, pat) == StartsWithAt(s, 1, pat)

EndsWith(s, pat) ==
    Len(pat) <= Len(s) /\ Sub(s, Len(s) - Len(pat) + 1, Len(s)) = pat

\* The least position >= from at which pat occurs in s; 0 when there is none.
IndexFrom(s, pat, from) ==
    LET found == {k \in from..(Len(s) - Len(pat) + 1) : StartsWithAt(s, k, pat)}
    IN  IF found = {} THEN 0 ELSE MinOfSet(found)

Includes(s, pat) == IndexFrom(s, pat, 1) # 0

\* The end of the run of characters of the set chars that starts at k: the
\* first position >= k of s whose character is not in chars.
SkipChars(s, k, chars) ==
    LET stop == {j \in k..Len(s) : Ch(s, j) \notin chars}
    IN  IF stop # {} THEN MinOfSet(stop)
        ELSE IF k > Len(s) THEN k ELSE Len(s) + 1

\* The first position >= k of s that holds no white space.
SkipWs(s, k) == SkipChars(s, k, WsChars)

TrimStart(s) == Sub(s, SkipWs(s, 1), Len(s))

TrimEnd(s) ==
    LET keep == {j \in 1..Len(s) : ~IsWs(Ch(s, j))}
    IN  IF keep = {} THEN "" ELSE Sub(s, 1, MaxOfSet(keep))

\* String.prototype.trim
Trim(s) == TrimEnd(TrimStart(s))

\* String.prototype.split with a one-character separator.
Split(s, sep) ==
    LET at == {k \in 1..Len(s) : Ch(s, k) = sep}
        \* the position of the n-th separator
        Nth(n) == CHOOSE k \in at : Cardinality({j \in at : j <= k}) = n
        pieces == Cardinality(at) + 1
    IN  [n \in 1..pieces |->
            Sub(s, IF n = 1 THEN 1 ELSE Nth(n - 1) + 1,
                   IF n = pieces THEN Len(s) ELSE Nth(n) - 1)]

\* Array.prototype.join
Join(seq, sep) ==
    LET RECURSIVE F(_, _)
        F(a, b) == IF a > b THEN ""
                   ELSE IF a = b THEN seq[a]
                   ELSE F(a, (a + b) \div 2) \o sep \o F((a + b) \div 2 + 1, b)
    IN  F(1, Len(seq))

\* Array.prototype.slice(from, to) with 0-based from and exclusive to.
Slice(seq, from, to) == SubSeq(seq, from + 1, to)

-----------------------------------------------------------------------------
(* Front matter: extractYamlHeader and parseYaml.                          *)

\* The value stored for one "key: value" line.
\* parseYamlValue keeping the white space around the pieces of a bracketed
\* value.  C12 fails under it.
parseYamlValueUntrimmed(value) ==
    IF StartsWith(value, "[") /\ EndsWith(value, "]")
    THEN Split(Sub(value, 2, Len(value) - 1), ",")
    ELSE IF (StartsWith(value, "\"") /\ EndsWith(value, "\""))
            \/ (StartsWith(value, "'") /\ EndsWith(value, "'"))
         THEN Sub(value, 2, Len(value) - 1)
         ELSE value

parseYamlValue(value) ==
    IF StartsWith(value, "[") /\ EndsWith(value, "]")
    THEN LET arrayContent == Sub(value, 2, Len(value) - 1)
             items == Split(arrayContent, ",")
         IN  [k \in 1..Len(items) |-> Trim(items[k])]
    ELSE IF (StartsWith(value, "\"") /\ EndsWith(value, "\""))
            \/ (StartsWith(value, "'") /\ EndsWith(value, "'"))
         THEN Sub(value, 2, Len(value) - 1)
         ELSE value

\* metadata[key] = v on the object literal {}: an own property, except for
\* the key __proto__, which is the accessor of Object.prototype and creates
\* none (a string is ignored, an array becomes the prototype).
SetKey(m, key, v) ==
    IF key = "__proto__" THEN m
    ELSE [k \in (DOMAIN m) \cup {key} |-> IF k = key THEN v ELSE m[k]]

\* The empty object {}.
EmptyMetadata == [k \in {} |-> ""]

\* The branch of the loop body of parseYaml that line takes.
YamlBranch(line) ==
    LET trimmed == Trim(line)
    IN  IF trimmed = "" \/ StartsWith(trimmed, "#") THEN "skip"
        ELSE IF Includes(trimmed, ":") THEN "entry"
        ELSE "other"

\* The entry line keeping, of the pieces trimmed.split(':') gives, the first
\* two only: what follows a second colon is lost.  C29 fails under it.
YamlEntryStepSecondPieceOnly(m, line) ==
    LET parts == Split(Trim(line), ":")
    IN  SetKey(m, Trim(parts[1]), parseYamlValue(Trim(parts[2])))

\* Source lines 61-76: const [key, ...valueParts] = trimmed.split(':') and
\* value = valueParts.join(':').trim().
YamlEntryStep(m, line) ==
    LET parts == Split(Trim(line), ":")
        key == parts[1]
        valueParts == SubSeq(parts, 2, Len(parts))
        value == Trim(Join(valueParts, ":"))
    IN  SetKey(m, Trim(key), parseYamlValue(value))

\* One pass through the loop body of parseYaml.
YamlStep(m, line) ==
    IF YamlBranch(line) = "entry" THEN YamlEntryStep(m, line) ELSE m

parseYaml(yamlContent) ==
    LET ylines == Split(yamlContent, "\n")
        RECURSIVE F(_, _)
        F(k, m) == IF k > Len(ylines) THEN m
                   ELSE F(k + 1, YamlStep(m, ylines[k]))
    IN  F(1, EmptyMetadata)

\* FindEndIndex without the "none found" answer: the last line closes the
\* block.  C9 fails under it.
FindEndIndexOrLast(dlines) ==
    LET found == {k \in 1..(Len(dlines) - 1) : Trim(dlines[k + 1]) = "---"}
    IN  IF found = {} THEN Len(dlines) - 1 ELSE MinOfSet(found)

\* The index (0-based) of the first line after the first that trims to ---;
\* -1 when there is none.
FindEndIndex(dlines) ==
    LET found == {k \in 1..(Len(dlines) - 1) : Trim(dlines[k + 1]) = "---"}
    IN  IF found = {} THEN -1 ELSE MinOfSet(found)

\* extractYamlHeader without the test of the first line.  C8 fails under it.
extractYamlHeaderAnyFirstLine(md) ==
    LET dlines == Split(md, "\n")
        endIndex == FindEndIndex(dlines)
    IN  IF Len(dlines) < 3 THEN [metadata |-> EmptyMetadata, content |-> md]
        ELSE IF endIndex = -1
             THEN [metadata |-> EmptyMetadata, content |-> md]
        ELSE [metadata |-> parseYaml(Join(Slice(dlines, 1, endIndex), "\n")),
              content  |-> Join(Slice(dlines, endIndex + 1, Len(dlines)), "\n")]

extractYamlHeader(md) ==
    LET dlines == Split(md, "\n")
        endIndex == FindEndIndex(dlines)
    IN  IF Len(dlines) < 3 THEN [metadata |-> EmptyMetadata, content |-> md]
        ELSE IF Trim(dlines[1]) # "---"
             THEN [metadata |-> EmptyMetadata, content |-> md]
        ELSE IF endIndex = -1
             THEN [metadata |-> EmptyMetadata, content |-> md]
        ELSE [metadata |-> parseYaml(Join(Slice(dlines, 1, endIndex), "\n")),
              content  |-> Join(Slice(dlines, endIndex + 1, Len(dlines)), "\n")]

-----------------------------------------------------------------------------
(* The text stages of convertToHtml: String.prototype.replace with a       *)
(* global regular expression.  Each XxxMatch(s, k) is one match attempt    *)
(* of the expression at position k: the position after the match, or 0.   *)

\* A line terminator: what . never matches and what ^ and $ (flag m) look at.
IsLineTerm(c) == c \in {"\n", "\r"}

\* ^ with flag m
AtLineStart(s, k) == k = 1 \/ IsLineTerm(Ch(s, k - 1))

\* $ with flag m
AtLineEnd(s, k) == k > Len(s) \/ IsLineTerm(Ch(s, k))

\* The first position >= k that ends a line.
LineEnd(s, k) == MinOfSet({j \in k..(Len(s) + 1) : AtLineEnd(s, j)})

\* String.prototype.replace(/c/g, rep) for a single character c.
ReplaceAll(s, c, rep) == Join(Split(s, c), rep)

\* The least position >= k of a set of match positions; 0 when there is none.
NextIn(positions, k) ==
    LET later == {j \in positions : j >= k}
    IN  IF later = {} THEN 0 ELSE MinOfSet(later)

escapeHtml(text) ==
    ReplaceAll(ReplaceAll(ReplaceAll(ReplaceAll(ReplaceAll(text,
        "&", "&amp;"), "<", "&lt;"), ">", "&gt;"), "\"", "&quot;"), "'", "&#x27;")

\* /FFF(\w+)?\n(.*?)\n FFF/gs at k, F the grave accent: [end, language, code], end = 0 on failure.
CodeBlockMatch(s, k) ==
    LET w == SkipChars(s, k + 3, WordChars)
        close == IndexFrom(s, "\n" \o Fence, w + 1)
    IN  IF StartsWithAt(s, k, Fence) /\ Ch(s, w) = "\n" /\ close # 0
        THEN [end |-> close + 4,
              language |-> Sub(s, k + 3, w - 1),
              code |-> Sub(s, w + 1, close - 1)]
        ELSE [end |-> 0, language |-> "", code |-> ""]

processCodeBlocks(text) ==
    LET starts == {j \in 1..Len(text) : CodeBlockMatch(text, j).end # 0}
        RECURSIVE F(_)
        F(k) ==
            LET j == NextIn(starts, k)
                m == CodeBlockMatch(text, j)
                lang == IF m.language # ""
                        THEN " class=\"language-" \o m.language \o "\""
                        ELSE ""
                escapedCode == ReplaceAll(escapeHtml(m.code), "\n", "<br>")
            IN  IF j = 0 THEN Sub(text, k, Len(text))
                ELSE Sub(text, k, j - 1) \o "<pre><code" \o lang \o ">"
                     \o escapedCode \o "</code></pre>" \o F(m.end)
    IN  F(1)

HrTag == "<hr style=\"border: none; border-top: 1px solid black; margin: 1em 0;\" />"

\* The pattern without its leading [\s]*: an indented rule line is not
\* matched.  C17 fails under it.
HrMatchAtLineStartOnly(s, k) ==
    LET e == SkipWs(s, k + 3)
        ends == {t \in (k + 3)..e : AtLineEnd(s, t)}
    IN  IF AtLineStart(s, k) /\ Sub(s, k, k + 2) \in {"---", "___", "***"}
           /\ ends # {}
        THEN MaxOfSet(ends)
        ELSE 0

\* /^[\s]*(---|___|\*\*\*)[\s]*$/gm at k.  [\s]* also runs over line breaks;
\* the trailing one gives back characters until $ holds.
HrMatch(s, k) ==
    LET q == SkipWs(s, k)
        e == SkipWs(s, q + 3)
        ends == {t \in (q + 3)..e : AtLineEnd(s, t)}
    IN  IF AtLineStart(s, k) /\ Sub(s, q, q + 2) \in {"---", "___", "***"}
           /\ ends # {}
        THEN MaxOfSet(ends)
        ELSE 0

processHorizontalRules(text) ==
    LET starts == {j \in 1..Len(text) : HrMatch(text, j) # 0}
        RECURSIVE F(_)
        F(k) == LET j == NextIn(starts, k)
                IN  IF j = 0 THEN Sub(text, k, Len(text))
                    ELSE Sub(text, k, j - 1) \o HrTag \o F(HrMatch(text, j))
    IN  F(1)

\* The number of # characters at k.
CountHashes(s, k) == SkipChars(s, k, {"#"}) - k

\* /^(#{1,6})\s+(.+)$/gm at k: [end, level, title], end = 0 on failure.
\* \s+ is greedy and runs over line breaks; it gives back characters until
\* (.+) finds a character that is no line terminator.
HeadingMatch(s, k) ==
    LET h == CountHashes(s, k)
        a == k + h
        e == SkipWs(s, a)
        from == {t \in (a + 1)..e : t <= Len(s) /\ ~IsLineTerm(Ch(s, t))}
        st == IF from = {} THEN 0 ELSE MaxOfSet(from)
    IN  IF AtLineStart(s, k) /\ h >= 1 /\ h <= 6 /\ st # 0
        THEN [end |-> LineEnd(s, st), level |-> h,
              title |-> Sub(s, st, LineEnd(s, st) - 1)]
        ELSE [end |-> 0, level |-> 0, title |-> ""]

processHeadings(text) ==
    LET starts == {j \in 1..Len(text) : HeadingMatch(text, j).end # 0}
        RECURSIVE F(_)
        F(k) ==
            LET j == NextIn(starts, k)
                m == HeadingMatch(text, j)
            IN  IF j = 0 THEN Sub(text, k, Len(text))
                ELSE Sub(text, k, j - 1)
                     \o "<h" \o ToString(m.level) \o ">" \o Trim(m.title)
                     \o "</h" \o ToString(m.level) \o ">" \o F(m.end)
    IN  F(1)

\* /DD(.+?)DD/g at k for a two-character delimiter DD: the position of the
\* closing delimiter, or 0.  (.+?) is lazy and never crosses a line break.
DelimMatch(s, k, delim) ==
    LET q == IndexFrom(s, delim, k + 3)
    IN  IF StartsWithAt(s, k, delim) /\ q # 0 /\ LineEnd(s, k + 2) >= q
        THEN q
        ELSE 0

\* text.replace(/DD(.+?)DD/g, open $1 close)
ReplaceDelim(text, delim, open, close) ==
    LET starts == {j \in 1..Len(text) : DelimMatch(text, j, delim) # 0}
        RECURSIVE F(_)
        F(k) == LET j == NextIn(starts, k)
                    q == DelimMatch(text, j, delim)
                IN  IF j = 0 THEN Sub(text, k, Len(text))
                    ELSE Sub(text, k, j - 1)
                         \o open \o Sub(text, j + 2, q - 1) \o close \o F(q + 2)
    IN  F(1)

processBold(text) ==
    ReplaceDelim(ReplaceDelim(text, "**", "<strong>", "</strong>"),
                 "__", "<strong>", "</strong>")

processStrikethrough(text) == ReplaceDelim(text, "~~", "<del>", "</del>")

\* /F([^F]+?)F/g, F the grave accent
processInlineCode(text) ==
    LET Close(j) == IndexFrom(text, BT, j + 1)
        starts == {j \in 1..Len(text) : Ch(text, j) = BT /\ Close(j) >= j + 2}
        RECURSIVE F(_)
        F(k) == LET j == NextIn(starts, k)
                IN  IF j = 0 THEN Sub(text, k, Len(text))
                    ELSE Sub(text, k, j - 1) \o "<code>"
                         \o Sub(text, j + 1, Close(j) - 1) \o "</code>"
                         \o F(Close(j) + 1)
    IN  F(1)

\* \[([^\]]X)\]\(([^)]+)\) with the [ at position k; X is * (minLabel = 0)
\* or + (minLabel = 1): [end, label, target], end = 0 on failure.
BracketMatch(s, k, minLabel) ==
    LET rb == IndexFrom(s, "]", k + 1)
        rp == IndexFrom(s, ")", rb + 2)
    IN  IF Ch(s, k) = "[" /\ rb # 0 /\ rb - (k + 1) >= minLabel
           /\ Ch(s, rb + 1) = "(" /\ rp >= rb + 3
        THEN [end |-> rp + 1, label |-> Sub(s, k + 1, rb - 1),
              target |-> Sub(s, rb + 2, rp - 1)]
        ELSE [end |-> 0, label |-> "", target |-> ""]

\* /!\[([^\]]*)\]\(([^)]+)\)/g
processImages(text) ==
    LET starts == {j \in 1..Len(text) :
                      Ch(text, j) = "!" /\ BracketMatch(text, j + 1, 0).end # 0}
        RECURSIVE F(_)
        F(k) ==
            LET j == NextIn(starts, k)
                m == BracketMatch(text, j + 1, 0)
            IN  IF j = 0 THEN Sub(text, k, Len(text))
                ELSE Sub(text, k, j - 1) \o "<img src=\"" \o m.target
                     \o "\" alt=\"" \o m.label \o "\">" \o F(m.end)
    IN  F(1)

\* /\[([^\]]+)\]\(([^)]+)\)/g
processLinks(text) ==
    LET starts == {j \in 1..Len(text) : BracketMatch(text, j, 1).end # 0}
        RECURSIVE F(_)
        F(k) ==
            LET j == NextIn(starts, k)
                m == BracketMatch(text, j, 1)
            IN  IF j = 0 THEN Sub(text, k, Len(text))
                ELSE Sub(text, k, j - 1) \o "<a href=\"" \o m.target \o "\">"
                     \o m.label \o "</a>" \o F(m.end)
    IN  F(1)

-----------------------------------------------------------------------------
(* The list stage: processListsImproved and its helpers.                   *)

\* JavaScript's undefined (the counter and explicitNumbering of a ul frame).
Undefined == "undefined"

\* parseInt(digits, 10) of a string of decimal digits.
parseInt(digits) ==
    LET DigitVal(c) == CHOOSE d \in 0..9 : ToString(d) = c
        RECURSIVE F(_, _)
        F(k, acc) == IF k > Len(digits) THEN acc
                     ELSE F(k + 1, acc * 10 + DigitVal(Ch(digits, k)))
    IN  F(1, 0)

\* The position after the leading indentation of line, and the level it gives:
\* a tab is one level, a run of n spaces floor(n / 2) levels, a full-width
\* space none.
ListIndent(line) ==
    LET Spaces(j) == SkipChars(line, j, {" "})
        RECURSIVE F(_, _)
        F(k, indentLevel) ==
            IF Ch(line, k) = "\t" THEN F(k + 1, indentLevel + 1)
            ELSE IF Ch(line, k) = " "
                 THEN F(Spaces(k), indentLevel + ((Spaces(k) - k) \div 2))
            ELSE IF Ch(line, k) = FW THEN F(k + 1, indentLevel)
            ELSE [pos |-> k, indentLevel |-> indentLevel]
    IN  F(1, 0)

\* \s+(.+)$ at position a of s (no flag m): the position where (.+) starts,
\* or 0.  \s+ is greedy and gives back characters until (.+) can start.
ItemContentStart(s, a) ==
    LET e == SkipWs(s, a)
        from == {t \in (a + 1)..e : t <= Len(s) /\ ~IsLineTerm(Ch(s, t))}
        st == IF from = {} THEN 0 ELSE MaxOfSet(from)
    IN  IF st # 0 /\ LineEnd(s, st) = Len(s) + 1 THEN st ELSE 0

\* The end of the \d* run starting at k.
SkipDigits(s, k) == SkipChars(s, k, DigitChars)

\* null is the record of type "null".
parseListItem(line) ==
    LET ind == ListIndent(line)
        remaining == Sub(line, ind.pos, Len(line))
        ust == ItemContentStart(remaining, 2)
        d == SkipDigits(remaining, 1)
        ost == ItemContentStart(remaining, d + 1)
    IN  IF Ch(remaining, 1) \in {"-", "+", "*"} /\ ust # 0
        THEN [type |-> "ul", indentLevel |-> ind.indentLevel,
              content |-> Sub(remaining, ust, Len(remaining)),
              orderNumber |-> Undefined]
        ELSE IF d > 1 /\ Ch(remaining, d) = "." /\ ost # 0
        THEN [type |-> "ol", indentLevel |-> ind.indentLevel,
              content |-> Sub(remaining, ost, Len(remaining)),
              orderNumber |-> parseInt(Sub(remaining, 1, d - 1))]
        ELSE [type |-> "null", indentLevel |-> 0, content |-> "",
              orderNumber |-> Undefined]

\* closeListItem closing only on the item's own line: an item with a block
\* inside is left open.  C34 fails under it.
closeListItemOwnLineOnly(res, closing) ==
    IF closing.hasBlock \/ Len(res) = 0 THEN res
    ELSE IF closing.lineIndex >= 0 /\ closing.lineIndex < Len(res)
         THEN [res EXCEPT ![closing.lineIndex + 1] = @ \o "</li>"]
         ELSE res

\* result after closeListItem(result, closing); lineIndex is 0-based.
closeListItem(res, closing) ==
    IF closing.hasBlock \/ Len(res) = 0 THEN Append(res, "</li>")
    ELSE IF closing.lineIndex >= 0 /\ closing.lineIndex < Len(res)
         THEN [res EXCEPT ![closing.lineIndex + 1] = @ \o "</li>"]
         ELSE Append(res, "</li>")

\* result after closeAllPendingLiTags; the pending stack is empty afterwards.
closeAllPendingLiTags(res, pending) ==
    LET RECURSIVE F(_, _)
        F(r, k) == IF k = 0 THEN r ELSE F(closeListItem(r, pending[k]), k - 1)
    IN  F(res, Len(pending))

\* closeAllLists closing the innermost frame only.  C2 fails under it.
closeAllListsInnermostOnly(res, stack) ==
    IF Len(stack) = 0 THEN res
    ELSE Append(res, "</" \o stack[Len(stack)].type \o ">")

\* result after closeAllLists; the list stack is empty afterwards.
closeAllLists(res, stack) ==
    LET RECURSIVE F(_, _)
        F(r, k) == IF k = 0 THEN r
                   ELSE F(Append(r, "</" \o stack[k].type \o ">"), k - 1)
    IN  F(res, Len(stack))

\* Source lines 185-189: close the pending items deeper than level.
ClosePendingDeeper(res, pending, level) ==
    LET RECURSIVE F(_, _)
        F(r, p) == IF Len(p) > 0 /\ p[Len(p)].level > level
                   THEN F(closeListItem(r, p[Len(p)]), SubSeq(p, 1, Len(p) - 1))
                   ELSE [result |-> r, pendingLiClose |-> p]
    IN  F(res, pending)

NewFrame(type, level) ==
    [type |-> type, level |-> level,
     counter |-> IF type = "ol" THEN 0 ELSE Undefined,
     explicitNumbering |-> IF type = "ol" THEN FALSE ELSE Undefined]

\* adjustListStack opening a frame for every item line and never closing
\* one.  C19 fails under it.
adjustListStackPushOnly(stack, currentType, currentLevel) ==
    [listStack |-> Append(stack, NewFrame(currentType, currentLevel)),
     closedLevels |-> <<>>, closingTagsDeep |-> <<>>,
     closingTagsSameLevel |-> <<>>,
     openingTags |-> <<"<" \o currentType \o ">">>]

\* adjustListStack keeping a frame of the other kind at the level of the item
\* line, so that the two lists are merged.  C20 fails under it.
adjustListStackMerging(stack, currentType, currentLevel) ==
    LET RECURSIVE Pop(_, _, _)
        Pop(st, closedLevels, closingTagsDeep) ==
            IF Len(st) > 0 /\ st[Len(st)].level > currentLevel
            THEN Pop(SubSeq(st, 1, Len(st) - 1),
                     Append(closedLevels, st[Len(st)].level),
                     Append(closingTagsDeep, "</" \o st[Len(st)].type \o ">"))
            ELSE [listStack |-> st, closedLevels |-> closedLevels,
                  closingTagsDeep |-> closingTagsDeep]
        popped == Pop(stack, <<>>, <<>>)
        st == popped.listStack
        opens == Len(st) = 0 \/ st[Len(st)].level < currentLevel
    IN  [listStack |-> IF opens
                       THEN Append(st, NewFrame(currentType, currentLevel))
                       ELSE st,
         closedLevels |-> popped.closedLevels,
         closingTagsDeep |-> popped.closingTagsDeep,
         closingTagsSameLevel |-> <<>>,
         openingTags |-> IF opens THEN <<"<" \o currentType \o ">">>
                         ELSE <<>>]

adjustListStack(stack, currentType, currentLevel) ==
    LET RECURSIVE Pop(_, _, _)
        Pop(st, closedLevels, closingTagsDeep) ==
            IF Len(st) > 0 /\ st[Len(st)].level > currentLevel
            THEN Pop(SubSeq(st, 1, Len(st) - 1),
                     Append(closedLevels, st[Len(st)].level),
                     Append(closingTagsDeep, "</" \o st[Len(st)].type \o ">"))
            ELSE [listStack |-> st, closedLevels |-> closedLevels,
                  closingTagsDeep |-> closingTagsDeep]
        popped == Pop(stack, <<>>, <<>>)
        st == popped.listStack
        out(stk, same, opening) ==
            [listStack |-> stk, closedLevels |-> popped.closedLevels,
             closingTagsDeep |-> popped.closingTagsDeep,
             closingTagsSameLevel |-> same, openingTags |-> opening]
    IN  IF Len(st) > 0 /\ st[Len(st)].level = currentLevel
           /\ st[Len(st)].type # currentType
        THEN out(Append(SubSeq(st, 1, Len(st) - 1),
                        NewFrame(currentType, currentLevel)),
                 <<"</" \o st[Len(st)].type \o ">">>,
                 <<"<" \o currentType \o ">">>)
        ELSE IF Len(st) > 0 /\ st[Len(st)].level = currentLevel
                /\ st[Len(st)].type = currentType
        THEN out(st, <<>>, <<>>)
        ELSE IF Len(st) = 0
        THEN out(Append(st, NewFrame(currentType, currentLevel)), <<>>,
                 <<"<" \o currentType \o ">">>)
        ELSE IF st[Len(st)].level < currentLevel
        THEN out(Append(st, NewFrame(currentType, currentLevel)), <<>>,
                 <<"<" \o currentType \o ">">>)
        ELSE out(st, <<>>, <<>>)

\* Math.min(...levels) of a non-empty array.
MinOf(levels) == CHOOSE m \in {levels[k] : k \in 1..Len(levels)} :
                     \A k \in 1..Len(levels) : m <= levels[k]

closePendingLiTagsForClosedLevels(res, pending, closedLevels, currentLevel) ==
    LET RECURSIVE F(_, _, _)
        F(r, p, k) ==
            IF k = 0 THEN [result |-> r, pendingLiClose |-> p]
            ELSE IF p[k].level >= MinOf(closedLevels) /\ p[k].level > currentLevel
                 THEN F(closeListItem(r, p[k]),
                        SubSeq(p, 1, k - 1) \o SubSeq(p, k + 1, Len(p)), k - 1)
                 ELSE F(r, p, k - 1)
    IN  IF Len(closedLevels) = 0 THEN [result |-> res, pendingLiClose |-> pending]
        ELSE F(res, pending, Len(pending))

\* closePendingLiTagsAtSameLevel that leaves the item of that level pending.
closePendingLiTagsAtSameLevelKeeping(res, pending, currentLevel) ==
    [result |-> res, pendingLiClose |-> pending]

closePendingLiTagsAtSameLevel(res, pending, currentLevel) ==
    LET RECURSIVE F(_, _)
        F(r, p) == IF Len(p) > 0 /\ p[Len(p)].level = currentLevel
                   THEN F(closeListItem(r, p[Len(p)]), SubSeq(p, 1, Len(p) - 1))
                   ELSE [result |-> r, pendingLiClose |-> p]
    IN  F(res, pending)

\* NumberItem with the tag written before the item is counted.
NumberItemTagBeforeCounting(stack, info) ==
    LET currentList == stack[Len(stack)]
        explicitNumber == info.orderNumber
        counted ==
            IF currentList.explicitNumbering \/ explicitNumber # 1
            THEN [currentList EXCEPT !.explicitNumbering = TRUE,
                                     !.counter = explicitNumber]
            ELSE [currentList EXCEPT !.counter = @ + 1]
    IN  IF info.type = "ol" /\ Len(stack) > 0 /\ currentList.type = "ol"
           /\ currentList.level = info.indentLevel
        THEN [listStack |-> [stack EXCEPT ![Len(stack)] = counted],
              listItemTag |-> "<li value=\"" \o ToString(currentList.counter) \o "\">"]
        ELSE [listStack |-> stack, listItemTag |-> "<li>"]

\* Source lines 209-224: the frame after counting the item, and the item's tag.
NumberItem(stack, info) ==
    LET currentList == stack[Len(stack)]
        explicitNumber == info.orderNumber
        counted ==
            IF currentList.explicitNumbering \/ explicitNumber # 1
            THEN [currentList EXCEPT !.explicitNumbering = TRUE,
                                     !.counter = explicitNumber]
            ELSE [currentList EXCEPT !.counter = @ + 1]
    IN  IF info.type = "ol" /\ Len(stack) > 0 /\ currentList.type = "ol"
           /\ currentList.level = info.indentLevel
        THEN [listStack |-> [stack EXCEPT ![Len(stack)] = counted],
              listItemTag |-> "<li value=\"" \o ToString(counted.counter) \o "\">"]
        ELSE [listStack |-> stack, listItemTag |-> "<li>"]

\* Source lines 181-230: one list-item line.
ListItemStep(st, info) ==
    LET deeper == ClosePendingDeeper(st.result, st.pendingLiClose,
                                     info.indentLevel)
        p1 == deeper.pendingLiClose
        p2 == IF Len(st.listStack) > 0
                 /\ st.listStack[Len(st.listStack)].level < info.indentLevel
                 /\ Len(p1) > 0
              THEN [p1 EXCEPT ![Len(p1)].hasBlock = TRUE]
              ELSE p1
        adj == adjustListStack(st.listStack, info.type, info.indentLevel)
        closed == closePendingLiTagsForClosedLevels(deeper.result, p2,
                      adj.closedLevels, info.indentLevel)
        r3 == closed.result \o adj.closingTagsDeep
        same == closePendingLiTagsAtSameLevel(r3, closed.pendingLiClose,
                                              info.indentLevel)
        r5 == same.result \o adj.closingTagsSameLevel \o adj.openingTags
        lineIndex == Len(r5)
        num == NumberItem(adj.listStack, info)
    IN  [result |-> Append(r5, num.listItemTag \o info.content),
         listStack |-> num.listStack,
         pendingLiClose |-> Append(same.pendingLiClose,
                                   [level |-> info.indentLevel,
                                    hasBlock |-> FALSE,
                                    lineIndex |-> lineIndex])]

\* closeAllPendingLiTags, closeAllLists, pendingLiClose.length = 0.
CloseEverything(st) ==
    [result |-> closeAllLists(closeAllPendingLiTags(st.result, st.pendingLiClose),
                              st.listStack),
     listStack |-> <<>>,
     pendingLiClose |-> <<>>]

\* trimmed.match(/^#{1,6}\s+/)
IsHeadingPattern(trimmed) ==
    LET h == CountHashes(trimmed, 1)
    IN  h >= 1 /\ h <= 6 /\ IsWs(Ch(trimmed, h + 1))

\* trimmed.includes('|') && trimmed.split('|').length >= 3
IsTablePattern(trimmed) ==
    Includes(trimmed, "|") /\ Len(Split(trimmed, "|")) >= 3

\* The branch of the loop body of processListsImproved that line takes.
ListBranch(st, line) ==
    LET trimmed == Trim(line)
    IN  IF parseListItem(line).type # "null" THEN "item"
        ELSE IF Len(st.listStack) > 0 /\ Len(st.pendingLiClose) > 0
                /\ trimmed # "" /\ Ch(line, 1) \in {" ", "\t"}
        THEN "continuation"
        ELSE IF Len(st.listStack) > 0 /\ trimmed = "" THEN "blank"
        ELSE IF IsHeadingPattern(trimmed) THEN "heading"
        ELSE IF IsTablePattern(trimmed) THEN "table"
        ELSE "ordinary"

\* Source lines 232-237: a continuation line of the open item.
ListContinuationStep(st, line) ==
    [st EXCEPT !.pendingLiClose[Len(st.pendingLiClose)].hasBlock = TRUE,
               !.result = Append(@, "<br>" \o Trim(line))]

\* Source lines 239-268: a blank, heading or table line closes everything.
ListClosingStep(st, line) ==
    [CloseEverything(st) EXCEPT !.result = Append(@, line)]

\* Source lines 270-277: any other line closes the lists that are open.
ListOrdinaryStep(st, line) ==
    IF Len(st.listStack) > 0
    THEN [CloseEverything(st) EXCEPT !.result = Append(@, line)]
    ELSE [st EXCEPT !.result = Append(@, line)]

\* One pass through the loop body of processListsImproved.
ListStep(st, line) ==
    LET branch == ListBranch(st, line)
    IN  IF branch = "item" THEN ListItemStep(st, parseListItem(line))
        ELSE IF branch = "continuation" THEN ListContinuationStep(st, line)
        ELSE IF branch \in {"blank", "heading", "table"}
        THEN ListClosingStep(st, line)
        ELSE ListOrdinaryStep(st, line)

ListStart == [result |-> <<>>, listStack |-> <<>>, pendingLiClose |-> <<>>]

\* Source lines 279-283: what follows the loop.
ListFinish(st) == CloseEverything(st)

processListsImproved(text) ==
    LET tl == Split(text, "\n")
        RECURSIVE F(_, _)
        F(k, st) == IF k > Len(tl) THEN st ELSE F(k + 1, ListStep(st, tl[k]))
    IN  Join(ListFinish(F(1, ListStart)).result, "\n")

-----------------------------------------------------------------------------
(* The table stage: processTables and parseTableRow.                       *)

\* [\s:-]*-[\s:-]* matches all of cell.
IsSeparatorCell(cell) ==
    /\ \A k \in 1..Len(cell) : IsWs(Ch(cell, k)) \/ Ch(cell, k) \in {":", "-"}
    /\ Includes(cell, "-")

\* /^\|?[\s:-]*-[\s:-]*(\|[\s:-]*-[\s:-]*)+\|?$/.test(trimmed): after one
\* optional leading and one optional trailing pipe, two or more cells between
\* pipes, each of dashes, colons and white space with at least one dash.
isSeparatorLine(trimmed) ==
    LET a == IF StartsWith(trimmed, "|") THEN 2 ELSE 1
        b == IF EndsWith(trimmed, "|") THEN Len(trimmed) - 1 ELSE Len(trimmed)
        cells == Split(Sub(trimmed, a, b), "|")
    IN  /\ a <= b
        /\ Len(cells) >= 2
        /\ \A k \in 1..Len(cells) : IsSeparatorCell(cells[k])

parseTableRow(line) ==
    LET trimmed == Trim(line)
        c1 == IF StartsWith(trimmed, "|") THEN Sub(trimmed, 2, Len(trimmed))
              ELSE trimmed
        content == IF EndsWith(c1, "|") THEN Sub(c1, 1, Len(c1) - 1) ELSE c1
        cells == Split(content, "|")
    IN  [k \in 1..Len(cells) |-> Trim(cells[k])]

\* The lines pushed for the cells of one row.
CellLines(cells, tag) ==
    [k \in 1..Len(cells) |-> "<" \o tag \o ">" \o cells[k] \o "</" \o tag \o ">"]

\* The branch of the loop body of processTables that line takes.
TableBranch(st, line) ==
    LET trimmed == Trim(line)
    IN  IF Includes(trimmed, "|")
        THEN IF isSeparatorLine(trimmed) THEN "separator"
             ELSE IF st.inTable THEN "row"
             ELSE "held"
        ELSE "other"

\* One pass through the loop body of processTables.
TableStep(st, line) ==
    LET branch == TableBranch(st, line)
        n == Len(st.result)
        headerLine == st.result[n]
        popped == SubSeq(st.result, 1, n - 1)
    IN  IF branch = "separator"
        THEN IF st.inTable THEN st
             ELSE IF n = 0
             THEN [st EXCEPT !.inTable = TRUE]
             ELSE IF headerLine = ""
             THEN [st EXCEPT !.inTable = TRUE, !.result = popped]
             ELSE [result |-> popped \o <<"<table>", "<thead><tr>">>
                              \o CellLines(parseTableRow(headerLine), "th")
                              \o <<"</tr></thead><tbody>">>,
                   inTable |-> TRUE,
                   isHeaderProcessed |-> TRUE]
        ELSE IF branch = "row"
        THEN [st EXCEPT !.result = @ \o <<"<tr>">>
                            \o CellLines(parseTableRow(Trim(line)), "td")
                            \o <<"</tr>">>]
        ELSE IF branch = "held"
        THEN [st EXCEPT !.result = Append(@, line)]
        ELSE IF st.inTable
        THEN [result |-> st.result \o <<"</tbody></table>", line>>,
              inTable |-> FALSE,
              isHeaderProcessed |-> FALSE]
        ELSE [st EXCEPT !.result = Append(@, line)]

TableStart == [result |-> <<>>, inTable |-> FALSE, isHeaderProcessed |-> FALSE]

\* TableFinish without the closing of a table still open at end of input.
\* C4 fails under it.
TableFinishLeavingOpen(st) == st

\* Source lines 566-569: what follows the loop.
TableFinish(st) ==
    IF st.inTable THEN [st EXCEPT !.result = Append(@, "</tbody></table>")]
    ELSE st

processTables(text) ==
    LET tl == Split(text, "\n")
        RECURSIVE F(_, _)
        F(k, st) == IF k > Len(tl) THEN st ELSE F(k + 1, TableStep(st, tl[k]))
    IN  Join(TableFinish(F(1, TableStart)).result, "\n")

-----------------------------------------------------------------------------
(* The paragraph stage: processParagraphsImproved and its line tests.      *)

\* String.prototype.toLowerCase on the letters A-Z.
ToLowerCase(s) ==
    LET upper == "ABCDEFGHIJKLMNOPQRSTUVWXYZ"
        lower == "abcdefghijklmnopqrstuvwxyz"
        Low(c) == IF IndexFrom(upper, c, 1) # 0
                  THEN Ch(lower, IndexFrom(upper, c, 1)) ELSE c
    IN  Join([k \in 1..Len(s) |-> Low(Ch(s, k))], "")

\* The end of the [a-zA-Z0-9]* run starting at k.
SkipAlnum(s, k) == SkipChars(s, k, AlphaChars \cup DigitChars)

\* /<\/?[a-zA-Z][a-zA-Z0-9]*(?:\s+[^>]*)?>/ matches at position k of s.
HtmlTagAt(s, k) ==
    LET a == IF Ch(s, k + 1) = "/" THEN k + 2 ELSE k + 1
        n == SkipAlnum(s, a)
    IN  /\ Ch(s, k) = "<"
        /\ IsAlpha(Ch(s, a))
        /\ \/ Ch(s, n) = ">"
           \/ IsWs(Ch(s, n)) /\ IndexFrom(s, ">", n + 1) # 0

structuralTags ==
    {"h1", "h2", "h3", "h4", "h5", "h6",
     "p", "div", "section", "article", "nav", "aside", "header", "footer",
     "ul", "ol", "li", "dl", "dt", "dd",
     "table", "thead", "tbody", "tfoot", "tr", "th", "td",
     "pre", "code", "blockquote",
     "form", "fieldset", "legend",
     "hr", "a", "img", "span", "strong", "em", "i", "b", "u", "del", "ins",
     "script", "style", "br"}

isStructuralHtmlTag(line) ==
    LET trimmed == Trim(line)
        a == IF Ch(trimmed, 2) = "/" THEN 3 ELSE 2
        tagName == ToLowerCase(Sub(trimmed, a, SkipAlnum(trimmed, a) - 1))
    IN  \/ \E k \in 1..Len(trimmed) : HtmlTagAt(trimmed, k)
        \/ /\ StartsWith(trimmed, "<")
           /\ IsAlpha(Ch(trimmed, a))
           /\ tagName \in structuralTags

\* /^[-+*]\s+/ or /^\d+\.\s+/ matches trimmed.
IsListMarkerLine(trimmed) ==
    \/ Ch(trimmed, 1) \in {"-", "+", "*"} /\ IsWs(Ch(trimmed, 2))
    \/ LET d == SkipDigits(trimmed, 1)
       IN  d > 1 /\ Ch(trimmed, d) = "." /\ IsWs(Ch(trimmed, d + 1))

isListOrTableLine(line) ==
    LET trimmed == Trim(line)
    IN  \/ IsListMarkerLine(trimmed)
        \/ Includes(trimmed, "|") /\ Len(Split(trimmed, "|")) >= 2
        \/ StartsWith(trimmed, "<ul>") \/ StartsWith(trimmed, "</ul>")
        \/ StartsWith(trimmed, "<ol>") \/ StartsWith(trimmed, "</ol>")
        \/ StartsWith(trimmed, "<li>") \/ EndsWith(trimmed, "</li>")

isProcessedHtmlTag(line) ==
    LET trimmed == Trim(line)
        \* the tag name of /^<\/?(names)>/, "" when the shape is not there
        Named(allowSlash) ==
            LET a == IF allowSlash /\ Ch(trimmed, 2) = "/" THEN 3 ELSE 2
                gt == IndexFrom(trimmed, ">", a)
            IN  IF StartsWith(trimmed, "<") /\ gt # 0
                THEN Sub(trimmed, a, gt - 1) ELSE ""
    IN  \/ Named(TRUE) \in {"ul", "ol"}
        \/ StartsWith(trimmed, "<li>")
        \/ StartsWith(trimmed, "</li>")
        \/ Named(TRUE) \in {"h1", "h2", "h3", "h4", "h5", "h6"}
        \/ Named(TRUE) \in {"table", "thead", "tbody", "tfoot", "tr", "th", "td"}
        \/ StartsWith(trimmed, "<hr") /\ IsWs(Ch(trimmed, 4))
        \/ trimmed = "<hr>"
        \/ trimmed = "<hr />"

preserveLeadingSpaces(line) ==
    LET n == SkipWs(line, 1)
        content == Sub(line, n, LineEnd(line, n) - 1)
        Preserved(c) == IF c = " " THEN "&nbsp;"
                        ELSE IF c = FW THEN "&#12288;"
                        ELSE IF c = "\t" THEN "&nbsp;&nbsp;&nbsp;&nbsp;"
                        ELSE c
    IN  Join([k \in 1..(n - 1) |-> Preserved(Ch(line, k))], "") \o content

\* ParagraphTag with the lines of the paragraph left on lines of their own.
\* C7 fails under it.
ParagraphTagWithoutBreaks(paragraph) ==
    "<p>" \o Join(paragraph, "\n") \o "</p>"

\* `<p>${currentParagraph.join('<br>')}</p>`
ParagraphTag(paragraph) == "<p>" \o Join(paragraph, "<br>") \o "</p>"

\* result after closing the open paragraph, if there is one.
FlushParagraph(st) ==
    IF Len(st.currentParagraph) > 0
    THEN Append(st.result, ParagraphTag(st.currentParagraph))
    ELSE st.result

\* The branch of the loop body of processParagraphsImproved that line takes.
ParagraphBranch(line) ==
    LET trimmed == Trim(line)
    IN  IF \/ isStructuralHtmlTag(trimmed)
           \/ StartsWith(trimmed, "<")
           \/ (Ch(trimmed, 1) = "<" /\ IsAlpha(Ch(trimmed, 2)))
           \/ isListOrTableLine(line)
           \/ isProcessedHtmlTag(line)
        THEN "structural"
        ELSE IF trimmed = "" THEN "blank"
        ELSE "text"

\* One pass through the loop body of processParagraphsImproved.
ParagraphStep(st, line) ==
    LET branch == ParagraphBranch(line)
    IN  IF branch = "structural"
        THEN [result |-> Append(FlushParagraph(st), line),
              currentParagraph |-> <<>>]
        ELSE IF branch = "blank"
        THEN [result |-> FlushParagraph(st), currentParagraph |-> <<>>]
        ELSE [st EXCEPT !.currentParagraph =
                            Append(@, preserveLeadingSpaces(line))]

ParagraphStart == [result |-> <<>>, currentParagraph |-> <<>>]

\* Source lines 626-629: what follows the loop.
ParagraphFinish(st) == [st EXCEPT !.result = FlushParagraph(st)]

processParagraphsImproved(text) ==
    LET tl == Split(text, "\n")
        RECURSIVE F(_, _)
        F(k, st) == IF k > Len(tl) THEN st
                    ELSE F(k + 1, ParagraphStep(st, tl[k]))
    IN  Join(ParagraphFinish(F(1, ParagraphStart)).result, "\n")

-----------------------------------------------------------------------------
(* parse: extractYamlHeader, then the stages of convertToHtml in the order *)
(* of the source, each stage taking the text the stage before it left.     *)

\* The longest document, in lines, that parse is given.
MaxDocLines == 3

\* The lines the generated documents are made of.
DocLines == {"---", " --- ", "k: v", "", "x"}

\* Every text of 1..n lines over a set of lines.
TextsOver(lineSet, n) ==
    {Join(ls, "\n") : ls \in UNION {[1..m -> lineSet] : m \in 1..n}}

\* The example document of the specification's testable properties.
ExampleDocument ==
    "---\ntitle: Hello\ncategories: [a, b]\n---\n# Heading\n\n- item1\n- item2\n  - nested"

\* Documents with code fences (F is the grave accent):
\* FFF / **not bold** a|b / FFF, and a table directly followed by a fence.
FenceDocuments ==
    {Fence \o "\n**not bold** a|b\n" \o Fence,
     Fence \o "js\nx < y\n" \o Fence \o "\n\ntext",
     "|h|k|\n|-|-|\n" \o Fence \o "\nx|y\n" \o Fence,
     Fence \o "\nplain\nmore\n" \o Fence,
     Fence \o "\nopen",
     "x\n" \o Fence \o "js\n**b** <i>\n- c"}

\* Documents whose first line is a table separator, lists closed at a
\* blank line, by a shallower item and at end of input, rule lines inside and
\* after lists, tables and paragraphs, lines that start with #, and indented
\* text.
EdgeDocuments ==
    {"|---|---|\n|a|b|",
     "|---|---|",
     "- a\n  - b\n\n- c",
     "1. a\n   - b\n     t\n2. c",
     "- a\n  ***\n- b",
     "- a\n  - b\n___\nx",
     "x\n *** \ny",
     "1. a\n\n---\n\n___",
     "|a|b|\n|-|-|\n|c|d|\n---",
     "---\nk: v\n---\n- a\n***\n  t",
     "# one\n###### six  \n####### seven",
     "  # indented\n#none\n##\ttwo",
     "#\nfoo",
     "x\n\t" \o FW \o " d\n  e f"}

Documents == TextsOver(DocLines, MaxDocLines) \cup FenceDocuments
             \cup {ExampleDocument} \cup EdgeDocuments

blockVars == <<lines, i, result, listStack, pendingLiClose, inTable,
               isHeaderProcessed, currentParagraph>>

BlockIdle ==
    /\ lines = <<>>
    /\ i = 0
    /\ result = <<>>
    /\ listStack = <<>>
    /\ pendingLiClose = <<>>
    /\ inTable = FALSE
    /\ isHeaderProcessed = FALSE
    /\ currentParagraph = <<>>

Init ==
    /\ pc = "parse"
    /\ markdown \in Documents
    /\ metadata = EmptyMetadata
    /\ html = ""
    /\ BlockIdle
    /\ RemoteIdle
    /\ returned = <<>>

\* parse keeping the metadata object of the call before and adding to it.
\* C14 fails under it.
ExtractYamlHeaderIntoOldMetadata ==
    /\ pc = "parse"
    /\ metadata' = [k \in DOMAIN metadata
                          \cup DOMAIN extractYamlHeader(markdown).metadata |->
                       IF k \in DOMAIN extractYamlHeader(markdown).metadata
                       THEN extractYamlHeader(markdown).metadata[k]
                       ELSE metadata[k]]
    /\ html' = extractYamlHeader(markdown).content
    /\ pc' = "processCodeBlocks"
    /\ UNCHANGED <<remoteVars, returned, markdown, blockVars>>

\* parse, source lines 13-14.
ExtractYamlHeader ==
    /\ pc = "parse"
    /\ metadata' = extractYamlHeader(markdown).metadata
    /\ html' = extractYamlHeader(markdown).content
    /\ pc' = "processCodeBlocks"
    /\ UNCHANGED <<remoteVars, returned, markdown, blockVars>>

ProcessCodeBlocks ==
    /\ pc = "processCodeBlocks"
    /\ html' = processCodeBlocks(html)
    /\ pc' = "processHorizontalRules"
    /\ UNCHANGED <<remoteVars, returned, markdown, metadata, blockVars>>

ProcessHorizontalRules ==
    /\ pc = "processHorizontalRules"
    /\ html' = processHorizontalRules(html)
    /\ pc' = "processHeadings"
    /\ UNCHANGED <<remoteVars, returned, markdown, metadata, blockVars>>

ProcessHeadings ==
    /\ pc = "processHeadings"
    /\ html' = processHeadings(html)
    /\ pc' = "processTables"
    /\ UNCHANGED <<remoteVars, returned, markdown, metadata, blockVars>>

\* The table stage returning to the call after the list stage, so that the
\* list stage is skipped.  C16 fails under it.
ProcessTablesSkippingLists ==
    /\ pc = "processTables"
    /\ html' = processTables(html)
    /\ pc' = "processBold"
    /\ UNCHANGED <<remoteVars, returned, markdown, metadata, blockVars>>

ProcessTables ==
    /\ pc = "processTables"
    /\ html' = processTables(html)
    /\ pc' = "processListsImproved"
    /\ UNCHANGED <<remoteVars, returned, markdown, metadata, blockVars>>

ProcessListsImproved ==
    /\ pc = "processListsImproved"
    /\ html' = processListsImproved(html)
    /\ pc' = "processBold"
    /\ UNCHANGED <<remoteVars, returned, markdown, metadata, blockVars>>

ProcessBold ==
    /\ pc = "processBold"
    /\ html' = processBold(html)
    /\ pc' = "processStrikethrough"
    /\ UNCHANGED <<remoteVars, returned, markdown, metadata, blockVars>>

ProcessStrikethrough ==
    /\ pc = "processStrikethrough"
    /\ html' = processStrikethrough(html)
    /\ pc' = "processInlineCode"
    /\ UNCHANGED <<remoteVars, returned, markdown, metadata, blockVars>>

ProcessInlineCode ==
    /\ pc = "processInlineCode"
    /\ html' = processInlineCode(html)
    /\ pc' = "processImages"
    /\ UNCHANGED <<remoteVars, returned, markdown, metadata, blockVars>>

ProcessImages ==
    /\ pc = "processImages"
    /\ html' = processImages(html)
    /\ pc' = "processLinks"
    /\ UNCHANGED <<remoteVars, returned, markdown, metadata, blockVars>>

ProcessLinks ==
    /\ pc = "processLinks"
    /\ html' = processLinks(html)
    /\ pc' = "processParagraphsImproved"
    /\ UNCHANGED <<remoteVars, returned, markdown, metadata, blockVars>>

\* The last stage handing its text back to the stage before it instead of
\* returning.  C13 fails under it.
ProcessParagraphsImprovedAgain ==
    /\ pc = "processParagraphsImproved"
    /\ pc' = "processLinks"
    /\ UNCHANGED <<remoteVars, returned, html, markdown, metadata, blockVars>>

\* The last stage; parse returns {html, metadata}.
ProcessParagraphsImproved ==
    /\ pc = "processParagraphsImproved"
    /\ html' = processParagraphsImproved(html)
    /\ pc' = "done"
    /\ UNCHANGED <<remoteVars, returned, markdown, metadata, blockVars>>

Next ==
    \/ ExtractYamlHeader
    \/ ProcessCodeBlocks
    \/ ProcessHorizontalRules
    \/ ProcessHeadings
    \/ ProcessTables
    \/ ProcessListsImproved
    \/ ProcessBold
    \/ ProcessStrikethrough
    \/ ProcessInlineCode
    \/ ProcessImages
    \/ ProcessLinks
    \/ ProcessParagraphsImproved

Spec == Init /\ [][Next]_vars

\* The calls parse makes, in the order it makes them, and its return.
Stages ==
    <<"parse", "processCodeBlocks", "processHorizontalRules",
      "processHeadings", "processTables", "processListsImproved",
      "processBold", "processStrikethrough", "processInlineCode",
      "processImages", "processLinks", "processParagraphsImproved", "done">>

\* The call in progress returns and control moves on.
StageReturns ==
    /\ pc # "done"
    /\ pc' \in {Stages[k] : k \in 1..Len(Stages)} \ {pc}

\* parse is synchronous code on one thread with no suspension point: a call
\* in progress is not left waiting, control moves on when it returns.
FairSpec == Spec /\ WF_pc(StageReturns)

-----------------------------------------------------------------------------
(* Several calls of parse on one MarkdownParser instance, one after the    *)
(* other: returned holds what the earlier calls returned.  The class has   *)
(* no field; html, metadata and the variables of the stages are locals of  *)
(* the call, and the model leaves in them what the call before put there.  *)

\* The most calls made on one instance.
MaxCalls == 3

\* Documents with and without front matter, a list, a table and a paragraph.
CallDocuments ==
    {"---\nk: v\n---\nx",
     "---\ntags: [a, b]\n---\n- a\n  - b",
     "- a\n  - b\n\n- c",
     "|a|b|\n|---|---|\n|c|d|",
     "x\ny"}

CallsInit ==
    /\ pc = "parse"
    /\ markdown \in CallDocuments
    /\ metadata = EmptyMetadata
    /\ html = ""
    /\ BlockIdle
    /\ RemoteIdle
    /\ returned = <<>>

\* parse returns {html, metadata}, and the caller calls it again.
ParseReturn ==
    /\ pc = "done"
    /\ Len(returned) + 1 < MaxCalls
    /\ returned' = Append(returned, [markdown |-> markdown, html |-> html,
                                     metadata |-> metadata])
    /\ pc' = "parse"
    /\ markdown' \in CallDocuments
    /\ UNCHANGED <<remoteVars, metadata, html, blockVars>>

CallsNext ==
    \/ Next
    \/ ParseReturn

SpecCalls == CallsInit /\ [][CallsNext]_vars

-----------------------------------------------------------------------------
(* processListsImproved, one pass of its loop per step.  The loop never    *)
(* looks ahead of lines[i], so the lines are drawn as they are read: lines *)
(* holds lines[0..i-1], and ListReturn is the input ending there.          *)

\* The longest input, in lines, of a block stage.
MaxLines == 4

\* Bullet and numbered items at levels 0, 1 and 2, an indented continuation,
\* a blank line, text, a heading-pattern line and a table-pattern line.
ListLines ==
    {"- a", "  - b", "    - c", "1. d", "  3. e", "  t", "", "x", "# h",
     "|y|z|"}

ListState ==
    [result |-> result, listStack |-> listStack,
     pendingLiClose |-> pendingLiClose]

ListInit ==
    /\ pc = "processListsImproved"
    /\ markdown = ""
    /\ metadata = EmptyMetadata
    /\ html = ""
    /\ BlockIdle
    /\ RemoteIdle
    /\ returned = <<>>

\* Read line as lines[i]; next is the state the loop body leaves.
ListRead(line, next) ==
    /\ lines' = Append(lines, line)
    /\ i' = i + 1
    /\ result' = next.result
    /\ listStack' = next.listStack
    /\ pendingLiClose' = next.pendingLiClose
    /\ UNCHANGED <<remoteVars, returned, pc, markdown, metadata, html, inTable, isHeaderProcessed,
                   currentParagraph>>

\* Source lines 181-230.
ListItemLine ==
    /\ pc = "processListsImproved" /\ i < MaxLines
    /\ \E line \in ListLines :
          /\ ListBranch(ListState, line) = "item"
          /\ ListRead(line, ListItemStep(ListState, parseListItem(line)))

\* Source lines 232-237.
ListContinuationLine ==
    /\ pc = "processListsImproved" /\ i < MaxLines
    /\ \E line \in ListLines :
          /\ ListBranch(ListState, line) = "continuation"
          /\ ListRead(line, ListContinuationStep(ListState, line))

\* Source lines 239-248.
ListBlankLine ==
    /\ pc = "processListsImproved" /\ i < MaxLines
    /\ \E line \in ListLines :
          /\ ListBranch(ListState, line) = "blank"
          /\ ListRead(line, ListClosingStep(ListState, line))

\* Source lines 251-259.
ListHeadingLine ==
    /\ pc = "processListsImproved" /\ i < MaxLines
    /\ \E line \in ListLines :
          /\ ListBranch(ListState, line) = "heading"
          /\ ListRead(line, ListClosingStep(ListState, line))

\* Source lines 261-268.
ListTableLine ==
    /\ pc = "processListsImproved" /\ i < MaxLines
    /\ \E line \in ListLines :
          /\ ListBranch(ListState, line) = "table"
          /\ ListRead(line, ListClosingStep(ListState, line))

\* Source lines 270-277.
ListOrdinaryLine ==
    /\ pc = "processListsImproved" /\ i < MaxLines
    /\ \E line \in ListLines :
          /\ ListBranch(ListState, line) = "ordinary"
          /\ ListRead(line, ListOrdinaryStep(ListState, line))

\* Source lines 279-283: i = lines.length; split gives at least one line.
ListReturn ==
    /\ pc = "processListsImproved" /\ i >= 1
    /\ result' = ListFinish(ListState).result
    /\ listStack' = ListFinish(ListState).listStack
    /\ pendingLiClose' = ListFinish(ListState).pendingLiClose
    /\ pc' = "returned"
    /\ UNCHANGED <<remoteVars, returned, markdown, metadata, html, lines, i, inTable,
                   isHeaderProcessed, currentParagraph>>

ListNext ==
    \/ ListItemLine
    \/ ListContinuationLine
    \/ ListBlankLine
    \/ ListHeadingLine
    \/ ListTableLine
    \/ ListOrdinaryLine
    \/ ListReturn

SpecList == ListInit /\ [][ListNext]_vars

-----------------------------------------------------------------------------
(* processTables, one pass of its loop per step; it too never looks ahead. *)

\* A header line, a separator row of two columns, one of three with colons,
\* a single-column separator, a body row, a lone pipe, text and a blank line.
TableLines ==
    {"|a|b|", "|---|---|", ":-|-:|--", "|---|", "c | d", "|", "x", ""}

TableState ==
    [result |-> result, inTable |-> inTable,
     isHeaderProcessed |-> isHeaderProcessed]

TableInit ==
    /\ pc = "processTables"
    /\ markdown = ""
    /\ metadata = EmptyMetadata
    /\ html = ""
    /\ BlockIdle
    /\ RemoteIdle
    /\ returned = <<>>

\* Read line as lines[i] and run the loop body on it.
TableRead(line) ==
    /\ lines' = Append(lines, line)
    /\ i' = i + 1
    /\ result' = TableStep(TableState, line).result
    /\ inTable' = TableStep(TableState, line).inTable
    /\ isHeaderProcessed' = TableStep(TableState, line).isHeaderProcessed
    /\ UNCHANGED <<remoteVars, returned, pc, markdown, metadata, html, listStack, pendingLiClose,
                   currentParagraph>>

\* Source lines 521-540.
TableSeparatorLine ==
    /\ pc = "processTables" /\ i < MaxLines
    /\ \E line \in TableLines :
          TableBranch(TableState, line) = "separator" /\ TableRead(line)

\* Source lines 541-549.
TableRowLine ==
    /\ pc = "processTables" /\ i < MaxLines
    /\ \E line \in TableLines :
          TableBranch(TableState, line) = "row" /\ TableRead(line)

\* Source lines 550-553.
TableHeldLine ==
    /\ pc = "processTables" /\ i < MaxLines
    /\ \E line \in TableLines :
          TableBranch(TableState, line) = "held" /\ TableRead(line)

\* Source lines 555-564.
TableOtherLine ==
    /\ pc = "processTables" /\ i < MaxLines
    /\ \E line \in TableLines :
          TableBranch(TableState, line) = "other" /\ TableRead(line)

\* Source lines 566-570.
TableReturn ==
    /\ pc = "processTables" /\ i >= 1
    /\ result' = TableFinish(TableState).result
    /\ pc' = "returned"
    /\ UNCHANGED <<remoteVars, returned, markdown, metadata, html, lines, i, listStack,
                   pendingLiClose, inTable, isHeaderProcessed, currentParagraph>>

TableNext ==
    \/ TableSeparatorLine
    \/ TableRowLine
    \/ TableHeldLine
    \/ TableOtherLine
    \/ TableReturn

SpecTable == TableInit /\ [][TableNext]_vars

-----------------------------------------------------------------------------
(* processParagraphsImproved, one pass of its loop per step.               *)

\* Plain text (with and without leading white space), a blank line, a line
\* of white space, an element of an earlier stage, a line with a pipe and a
\* line with the element of an inline span.
ParagraphLines ==
    {"paragraph line 1", "paragraph line 2", " b c", "\t" \o FW \o "d", "",
     "  ", "<h1>h</h1>", "e | f", "g <strong>h</strong>"}

ParagraphState == [result |-> result, currentParagraph |-> currentParagraph]

ParagraphInit ==
    /\ pc = "processParagraphsImproved"
    /\ markdown = ""
    /\ metadata = EmptyMetadata
    /\ html = ""
    /\ BlockIdle
    /\ RemoteIdle
    /\ returned = <<>>

\* Read line as lines[i] and run the loop body on it.
ParagraphRead(line) ==
    /\ lines' = Append(lines, line)
    /\ i' = i + 1
    /\ result' = ParagraphStep(ParagraphState, line).result
    /\ currentParagraph' = ParagraphStep(ParagraphState, line).currentParagraph
    /\ UNCHANGED <<remoteVars, returned, pc, markdown, metadata, html, listStack, pendingLiClose,
                   inTable, isHeaderProcessed>>

\* Source lines 600-612.
ParagraphStructuralLine ==
    /\ pc = "processParagraphsImproved" /\ i < MaxLines
    /\ \E line \in ParagraphLines :
          ParagraphBranch(line) = "structural" /\ ParagraphRead(line)

\* Source lines 614-621.
ParagraphBlankLine ==
    /\ pc = "processParagraphsImproved" /\ i < MaxLines
    /\ \E line \in ParagraphLines :
          ParagraphBranch(line) = "blank" /\ ParagraphRead(line)

\* Source lines 623-624.
ParagraphTextLine ==
    /\ pc = "processParagraphsImproved" /\ i < MaxLines
    /\ \E line \in ParagraphLines :
          ParagraphBranch(line) = "text" /\ ParagraphRead(line)

\* Source lines 626-630.
ParagraphReturn ==
    /\ pc = "processParagraphsImproved" /\ i >= 1
    /\ result' = ParagraphFinish(ParagraphState).result
    /\ pc' = "returned"
    /\ UNCHANGED <<remoteVars, returned, markdown, metadata, html, lines, i, listStack,
                   pendingLiClose, inTable, isHeaderProcessed, currentParagraph>>

ParagraphNext ==
    \/ ParagraphStructuralLine
    \/ ParagraphBlankLine
    \/ ParagraphTextLine
    \/ ParagraphReturn

SpecParagraph == ParagraphInit /\ [][ParagraphNext]_vars

-----------------------------------------------------------------------------
(* parseYaml, one pass of its loop per step: lines holds the lines of the  *)
(* block read so far, metadata the object built from them.                 *)

\* The longest metadata block, in lines.
MaxYamlLines == 3

\* Keys and scalar values without a colon, a bracket, a quote or a leading #.
PlainKeys == {"key", "my key", "__proto__"}

PlainValues == {"value", "a b"}

\* White space before the key, after it, before the value and after it.
Paddings == {<<"", "", " ", "">>, <<"  ", " ", "\t ", " ">>}

\* The lines key: value of the plain keys and values, each with its parts.
PlainEntries ==
    {[line |-> pad[1] \o k \o pad[2] \o ":" \o pad[3] \o v \o pad[4],
      key |-> k, value |-> v] :
        k \in PlainKeys, v \in PlainValues, pad \in Paddings}

\* Plain entries, bracketed and quoted values, a lone quote, mismatched
\* quotes, a value with a colon, a comment, a blank line and a line without
\* a colon.
YamlLines ==
    {e.line : e \in PlainEntries}
    \cup {"tags: [a, b, c]", "t: [ x ,y]", "q: [\"a, b\", 'c']", "e: []",
          "s: \"a b\"", "s: 'c'", "s: \"", "m: \"a'", "u: http://x",
          "# c: d", "", "plain"}

YamlInit ==
    /\ pc = "parseYaml"
    /\ markdown = ""
    /\ metadata = EmptyMetadata
    /\ html = ""
    /\ BlockIdle
    /\ RemoteIdle
    /\ returned = <<>>

\* Read line as the next line of the block; next is the object after it.
YamlRead(line, next) ==
    /\ lines' = Append(lines, line)
    /\ i' = i + 1
    /\ metadata' = next
    /\ UNCHANGED <<remoteVars, returned, pc, markdown, html, result, listStack, pendingLiClose,
                   inTable, isHeaderProcessed, currentParagraph>>

\* Source lines 58-59: a blank line or a comment.
YamlSkipLine ==
    /\ pc = "parseYaml" /\ i < MaxYamlLines
    /\ \E line \in YamlLines :
          YamlBranch(line) = "skip" /\ YamlRead(line, metadata)

\* Source lines 60-77: a line with a colon.
YamlEntryLine ==
    /\ pc = "parseYaml" /\ i < MaxYamlLines
    /\ \E line \in YamlLines :
          /\ YamlBranch(line) = "entry"
          /\ YamlRead(line, YamlEntryStep(metadata, line))

\* A line without a colon falls through the loop body.
YamlOtherLine ==
    /\ pc = "parseYaml" /\ i < MaxYamlLines
    /\ \E line \in YamlLines :
          YamlBranch(line) = "other" /\ YamlRead(line, metadata)

\* Source line 79; split gives at least one line.
YamlReturn ==
    /\ pc = "parseYaml" /\ i >= 1
    /\ pc' = "returned"
    /\ UNCHANGED <<remoteVars, returned, markdown, metadata, html, blockVars>>

YamlNext ==
    \/ YamlSkipLine
    \/ YamlEntryLine
    \/ YamlOtherLine
    \/ YamlReturn

SpecYaml == YamlInit /\ [][YamlNext]_vars

-----------------------------------------------------------------------------
(* One call of parseListItem: markdown holds the line it is called with,   *)
(* returned the object it returns.                                         *)

\* The longest indentation, in characters.
MaxIndent == 4

\* Every line made of up to MaxIndent tabs, spaces and full-width spaces
\* followed by a bullet item, a numbered item or plain text.
ItemLines ==
    {Join(indent, "") \o rest :
        indent \in UNION {[1..n -> {" ", "\t", FW}] : n \in 0..MaxIndent},
        rest \in {"- x", "12. y", "z"}}

ItemInit ==
    /\ pc = "parseListItem"
    /\ markdown \in ItemLines
    /\ metadata = EmptyMetadata
    /\ html = ""
    /\ BlockIdle
    /\ RemoteIdle
    /\ returned = <<>>

\* Source lines 373-422.
ParseListItem ==
    /\ pc = "parseListItem"
    /\ returned' = <<parseListItem(markdown)>>
    /\ pc' = "returned"
    /\ UNCHANGED <<remoteVars, markdown, metadata, html, blockVars>>

SpecItem == ItemInit /\ [][ParseListItem]_vars

-----------------------------------------------------------------------------
(* The five inline substitutions of convertToHtml (source lines 95-99)     *)
(* applied to one text, each once, in every order: markdown holds the      *)
(* text, html what the substitutions applied so far made of it, result     *)
(* their names in the order they were applied.                             *)

\* The stages by name: code fences, rules, headings, tables, lists, the
\* five inline substitutions, paragraphs.
ClaimedOrder ==
    <<"processCodeBlocks", "processHorizontalRules", "processHeadings",
      "processTables", "processListsImproved", "processBold",
      "processStrikethrough", "processInlineCode", "processImages",
      "processLinks", "processParagraphsImproved">>

\* What stage k of ClaimedOrder makes of the text t.
StageOutput(k, t) ==
    CASE k = 1 -> processCodeBlocks(t)
      [] k = 2 -> processHorizontalRules(t)
      [] k = 3 -> processHeadings(t)
      [] k = 4 -> processTables(t)
      [] k = 5 -> processListsImproved(t)
      [] k = 6 -> processBold(t)
      [] k = 7 -> processStrikethrough(t)
      [] k = 8 -> processInlineCode(t)
      [] k = 9 -> processImages(t)
      [] k = 10 -> processLinks(t)
      [] k = 11 -> processParagraphsImproved(t)

\* The positions of the inline substitutions in ClaimedOrder.
InlineStages == 6..10

\* Texts with one construct each and texts where two constructs overlap (^
\* stands for the grave accent).
InlineTexts ==
    {"**a** ~~b~~ " \o BT \o "c" \o BT,
     "![alt](src)",
     "[text](href) and ![alt](src)",
     BT \o "**x**" \o BT,
     BT \o "~~x~~" \o BT,
     BT \o "![a](s)" \o BT,
     BT \o "[t](h)" \o BT,
     "**a " \o BT \o "b** c" \o BT,
     "[__t__](h__i__j)"}

InlineInit ==
    /\ pc = "inline"
    /\ markdown \in InlineTexts
    /\ html = markdown
    /\ metadata = EmptyMetadata
    /\ BlockIdle
    /\ RemoteIdle
    /\ returned = <<>>

\* One of the substitutions not applied yet is applied to the whole text.
ApplyInline ==
    /\ pc = "inline"
    /\ \E k \in InlineStages :
          /\ \A n \in 1..Len(result) : result[n] # ClaimedOrder[k]
          /\ html' = StageOutput(k, html)
          /\ result' = Append(result, ClaimedOrder[k])
    /\ UNCHANGED <<remoteVars, returned, pc, markdown, metadata, lines, i, listStack,
                   pendingLiClose, inTable, isHeaderProcessed,
                   currentParagraph>>

SpecInline == InlineInit /\ [][ApplyInline]_vars

-----------------------------------------------------------------------------
(* WordPressClient.postArticle (src/src/wordpress-client.ts).  Every fetch *)
(* is a request whose answer the site chooses: the request fails and fetch *)
(* rejects, the response is not ok, or it is ok with a body.  calls keeps  *)
(* the requests in the order they were made.                               *)

MaxPosts == 2

Titles == {"T", "U"}

\* metadata.slug: missing, or a slug.
Slugs == {Undefined, "s"}

\* metadata.categories and metadata.tags.
TermLists == {<<>>, <<"c">>}

\* The posts a search may list: an exact title, a longer title holding the
\* words searched for, and a title that is exact only in its raw form.
SitePosts ==
    {[id |-> 1, rendered |-> "T", raw |-> "T"],
     [id |-> 2, rendered |-> "T U", raw |-> "T U"],
     [id |-> 3, rendered |-> "<b>U</b>", raw |-> "U"]}

PostLists ==
    UNION {[1..n -> SitePosts] : n \in 0..MaxPosts}

\* What a search request gets: body is posts of response.json().
SearchAnswers ==
    {[status |-> st, body |-> <<>>] : st \in {"rejects", "notOk"}}
        \cup {[status |-> "ok", body |-> b] : b \in PostLists}

\* What a lookup or creation of a term gets: id is 0 when the response
\* holds no term of that name.
TermAnswers ==
    [status : {"rejects", "notOk", "ok"}, id : {0, 7}]

\* What the request that writes the post gets: badJson is an ok response
\* whose response.json() rejects.
WriteAnswers == {"rejects", "notOk", "badJson", "ok"}

PostInit ==
    /\ pc = "findExistingPost"
    /\ markdown = ""
    /\ metadata \in [slug : Slugs, categories : TermLists, tags : TermLists]
    /\ html = ""
    /\ BlockIdle
    /\ returned = <<>>
    /\ title \in Titles
    /\ existingPost = NoPost
    /\ postData = NoPostData
    /\ calls = <<>>
    /\ matches = <<>>
    /\ processedMarkdown = ""

\* if (slug)
HasSlug == metadata.slug # Undefined /\ metadata.slug # ""

\* Source lines 236-239: posts.find(rendered === title || raw === title).
ExactMatch(posts, t) ==
    LET hits == {k \in 1..Len(posts) :
                    posts[k].rendered = t \/ posts[k].raw = t}
    IN  IF hits = {} THEN NoPost ELSE posts[MinOfSet(hits)]

PostStep(next, found, entry) ==
    /\ pc' = next
    /\ existingPost' = found
    /\ calls' = Append(calls, entry)
    /\ UNCHANGED <<markdown, metadata, html, blockVars, returned, title,
                   postData, matches, processedMarkdown>>

\* Source lines 205-208 and 217-227; a rejected fetch leaves findExistingPost
\* through its catch (lines 211-214) with null.
SearchPostBySlug ==
    /\ pc = "findExistingPost" /\ HasSlug
    /\ \E answer \in SearchAnswers :
          LET entry == [request |-> "searchPostBySlug", id |-> 0,
                        answer |-> answer]
          IN  IF answer.status = "rejects"
              THEN PostStep("resolveCategoryIds", NoPost, entry)
              ELSE IF answer.status = "ok" /\ Len(answer.body) > 0
              THEN PostStep("resolveCategoryIds", answer.body[1], entry)
              ELSE PostStep("searchPostByTitle", NoPost, entry)

\* Source lines 209-210 and 229-242.
SearchPostByTitle ==
    /\ \/ pc = "searchPostByTitle"
       \/ pc = "findExistingPost" /\ ~HasSlug
    /\ \E answer \in SearchAnswers :
          PostStep("resolveCategoryIds",
                   IF answer.status = "ok"
                   THEN ExactMatch(answer.body, title) ELSE NoPost,
                   [request |-> "searchPostByTitle", id |-> 0,
                    answer |-> answer])

\* Source lines 244-278 for one name: the requests made, and the ids found.
\* A lookup that is not ok, or ok without the name, is followed by a
\* creation; a rejected fetch is caught and the name is passed over.
ResolveTerm(find, create, found, made) ==
    LET lookup == [request |-> find, id |-> 0, answer |-> found]
        creation == [request |-> create, id |-> 0, answer |-> made]
    IN  IF found.status = "rejects"
        THEN [calls |-> <<lookup>>, ids |-> <<>>]
        ELSE IF found.status = "ok" /\ found.id # 0
        THEN [calls |-> <<lookup>>, ids |-> <<found.id>>]
        ELSE [calls |-> <<lookup, creation>>,
              ids |-> IF made.status = "ok" /\ made.id # 0
                      THEN <<made.id>> ELSE <<>>]

\* resolveCategoryIds and resolveTagIds over names, answers given per name.
ResolveTerms(find, create, names, found, made) ==
    LET RECURSIVE F(_)
        F(k) == IF k > Len(names) THEN [calls |-> <<>>, ids |-> <<>>]
                ELSE LET one == ResolveTerm(find, create, found[k], made[k])
                         rest == F(k + 1)
                     IN  [calls |-> one.calls \o rest.calls,
                          ids |-> one.ids \o rest.ids]
    IN  F(1)

\* Source line 29.
ResolveCategoryIds ==
    /\ pc = "resolveCategoryIds"
    /\ \E found \in [1..Len(metadata.categories) -> TermAnswers],
          made \in [1..Len(metadata.categories) -> TermAnswers] :
          LET r == ResolveTerms("findCategoryByName", "createCategory",
                                metadata.categories, found, made)
          IN  /\ calls' = calls \o r.calls
              /\ postData' = [postData EXCEPT !.categories = r.ids]
    /\ pc' = "resolveTagIds"
    /\ UNCHANGED <<markdown, metadata, html, blockVars, returned, title,
                   existingPost, matches, processedMarkdown>>

\* Source lines 30-41 and 80-82.
ResolveTagIds ==
    /\ pc = "resolveTagIds"
    /\ \E found \in [1..Len(metadata.tags) -> TermAnswers],
          made \in [1..Len(metadata.tags) -> TermAnswers] :
          LET r == ResolveTerms("findTagByName", "createTag",
                                metadata.tags, found, made)
          IN  /\ calls' = calls \o r.calls
              /\ postData' = [postData EXCEPT !.tags = r.ids,
                                              !.title = title,
                                              !.id = existingPost.id]
    /\ pc' = "write"
    /\ UNCHANGED <<markdown, metadata, html, blockVars, returned, title,
                   existingPost, matches, processedMarkdown>>

\* Source lines 104-150 and 155-200: the PostResult of the request that
\* writes the post.  error names the method that built the message.
WriteResult(method, answer) ==
    IF answer = "ok" THEN [success |-> TRUE, postId |-> 9]
    ELSE [success |-> FALSE, error |-> method]

\* Source lines 83-84, 87-88 and 91-98: writing the post and returning.
\* When the fetch or response.json() rejects, the catch of postArticle
\* builds the result and isUpdate is never assigned.
WritePost(method, flag) ==
    /\ \E answer \in WriteAnswers :
          LET r == IF answer \in {"rejects", "badJson"}
                   THEN [success |-> FALSE, error |-> "postArticle"]
                   ELSE [isUpdate |-> flag] @@ WriteResult(method, answer)
          IN  /\ returned' = <<r>>
              /\ calls' = Append(calls,
                     [request |-> method, id |-> postData.id,
                      answer |-> [status |-> answer, body |-> <<>>]])
    /\ pc' = "returned"
    /\ UNCHANGED <<markdown, metadata, html, blockVars, title, existingPost,
                   postData, matches, processedMarkdown>>

\* Source lines 80-84.
UpdatePost ==
    /\ pc = "write" /\ existingPost # NoPost
    /\ WritePost("updatePost", TRUE)

\* Source lines 85-89.
CreatePost ==
    /\ pc = "write" /\ existingPost = NoPost
    /\ WritePost("createPost", FALSE)

PostNext ==
    \/ SearchPostBySlug
    \/ SearchPostByTitle
    \/ ResolveCategoryIds
    \/ ResolveTagIds
    \/ UpdatePost
    \/ CreatePost

SpecPost == PostInit /\ [][PostNext]_vars

-----------------------------------------------------------------------------
(* ImageUploader.processMarkdownImages (src/src/image-uploader.ts).  The   *)
(* file system answers fs.existsSync and the site answers the upload; both *)
(* answers are chosen anew at every call.                                  *)

MaxImages == 3

\* Image references: two local files, an http URL and a data URL.
ImageRefs ==
    {"![a](x.png)", "![d](m.gif)", "![b](http://h/y.png)", "![](data:z)"}

\* Documents of up to MaxImages image references with text around them.
ImageDocuments ==
    {"t " \o Join(refs, " u ") \o " v" :
        refs \in UNION {[1..n -> ImageRefs] : n \in 0..MaxImages}}

\* Source lines 41-42: Array.from(markdown.matchAll(imagePattern)), each
\* match with its index (1-based here).
ImageMatches(text) ==
    LET starts == {j \in 1..Len(text) :
                      Ch(text, j) = "!" /\ BracketMatch(text, j + 1, 0).end # 0}
        RECURSIVE F(_)
        F(k) ==
            LET j == NextIn(starts, k)
                m == BracketMatch(text, j + 1, 0)
            IN  IF j = 0 THEN <<>>
                ELSE <<[index |-> j, fullMatch |-> Sub(text, j, m.end - 1),
                        altText |-> m.label, imagePath |-> m.target]>>
                     \o F(m.end)
    IN  F(1)

\* s.replace(pat, rep) with a string pattern: the first occurrence only.
\* (No text of the model holds a $, which rep would treat specially.)
ReplaceFirst(s, pat, rep) ==
    LET j == IndexFrom(s, pat, 1)
    IN  IF j = 0 THEN s
        ELSE Sub(s, 1, j - 1) \o rep \o Sub(s, j + Len(pat), Len(s))

\* Source lines 183-195.
isLocalPath(imagePath) ==
    ~ \/ StartsWith(imagePath, "http://")
      \/ StartsWith(imagePath, "https://")
      \/ StartsWith(imagePath, "data:")

\* What a call of uploadImage meets: the file is gone by the time it looks
\* (line 103), fetch rejects, the response is not ok, response.json()
\* rejects, or the response is ok and its source_url is url ("" when the
\* response has none).
UploadAnswers ==
    {[status |-> st, url |-> ""] :
        st \in {"missing", "rejects", "notOk", "badJson"}}
        \cup {[status |-> "ok", url |-> u] : u \in {"", "https://w/1.png"}}

\* Source lines 100-156: the ImageUploadResult; url is "" when undefined.
uploadImage(answer) ==
    IF answer.status = "ok"
    THEN [success |-> TRUE, url |-> answer.url]
    ELSE [success |-> FALSE, url |-> ""]

ImagesInit ==
    /\ pc = "processMarkdownImages"
    /\ markdown \in ImageDocuments
    /\ metadata = EmptyMetadata
    /\ html = ""
    /\ BlockIdle
    /\ returned = <<>>
    /\ title = ""
    /\ existingPost = NoPost
    /\ postData = NoPostData
    /\ calls = <<>>
    /\ matches = ImageMatches(markdown)
    /\ processedMarkdown = markdown

\* One pass of the loop of lines 44-67 over matches[i + 1].
ImageStep(text, made) ==
    /\ i' = i + 1
    /\ processedMarkdown' = text
    /\ calls' = calls \o made
    /\ UNCHANGED <<pc, markdown, metadata, html, lines, result, listStack,
                   pendingLiClose, inTable, isHeaderProcessed,
                   currentParagraph, returned, title, existingPost,
                   postData, matches>>

ImageLeft == pc = "processMarkdownImages" /\ i < Len(matches)

ExistsCall(answer) ==
    [request |-> "existsSync", id |-> i + 1,
     answer |-> [status |-> answer, url |-> ""]]

UploadCall(answer) ==
    [request |-> "uploadImage", id |-> i + 1, answer |-> answer]

\* Source line 48: an http, https or data URL is passed over.
ImageNotLocal ==
    /\ ImageLeft
    /\ ~isLocalPath(matches[i + 1].imagePath)
    /\ ImageStep(processedMarkdown, <<>>)

\* Source line 51: fs.existsSync(fullImagePath) is false.
ImageMissing ==
    /\ ImageLeft
    /\ isLocalPath(matches[i + 1].imagePath)
    /\ ImageStep(processedMarkdown, <<ExistsCall("false")>>)

\* Source lines 53-61: the upload succeeded with a URL.
ImageUploaded ==
    /\ ImageLeft
    /\ isLocalPath(matches[i + 1].imagePath)
    /\ \E answer \in UploadAnswers :
          LET uploadResult == uploadImage(answer)
              match == matches[i + 1]
          IN  /\ uploadResult.success /\ uploadResult.url # ""
              /\ ImageStep(
                    ReplaceFirst(processedMarkdown, match.fullMatch,
                        "![" \o match.altText \o "](" \o uploadResult.url
                        \o ")"),
                    <<ExistsCall("true"), UploadCall(answer)>>)

\* Source lines 53-55: the upload failed, or succeeded without a URL.
ImageUploadFailed ==
    /\ ImageLeft
    /\ isLocalPath(matches[i + 1].imagePath)
    /\ \E answer \in UploadAnswers :
          LET uploadResult == uploadImage(answer)
          IN  /\ ~(uploadResult.success /\ uploadResult.url # "")
              /\ ImageStep(processedMarkdown,
                           <<ExistsCall("true"), UploadCall(answer)>>)

\* Source line 69.
ImagesReturn ==
    /\ pc = "processMarkdownImages" /\ i = Len(matches)
    /\ returned' = <<processedMarkdown>>
    /\ pc' = "returned"
    /\ UNCHANGED <<markdown, metadata, html, blockVars, remoteVars>>

ImagesNext ==
    \/ ImageNotLocal
    \/ ImageMissing
    \/ ImageUploaded
    \/ ImageUploadFailed
    \/ ImagesReturn

SpecImages == ImagesInit /\ [][ImagesNext]_vars

-----------------------------------------------------------------------------
(* Properties of extractYamlHeader, stated on the state parse is in right  *)
(* after the call: metadata holds the metadata, html the body.             *)

FrontMatterExtracted == pc = "processCodeBlocks"

\* The lines of the document, and those after the first that trim to ---.
DocumentLines == Split(markdown, "\n")

OpensWithMarker == Trim(DocumentLines[1]) = "---"

LaterMarkers == {k \in 2..Len(DocumentLines) : Trim(DocumentLines[k]) = "---"}

\* C8: a document whose first line does not trim to --- comes back whole as
\* the body, with empty metadata.
C8_NoFrontMatterIsAllBody ==
    (FrontMatterExtracted /\ ~OpensWithMarker)
        => (metadata = EmptyMetadata /\ html = markdown)

\* A document of three lines or more that has a --- line, but not first.
C8_Witness ==
    /\ FrontMatterExtracted
    /\ ~OpensWithMarker
    /\ LaterMarkers # {}
    /\ Len(DocumentLines) >= 3
    /\ html = markdown

\* C9: a document that opens with --- and has no later --- line comes back
\* whole as the body, opening marker included, with empty metadata.
C9_UnterminatedIsAllBody ==
    (FrontMatterExtracted /\ OpensWithMarker /\ LaterMarkers = {})
        => (metadata = EmptyMetadata /\ html = markdown)

\* An unterminated block that holds a key, in a document long enough to be
\* searched for the closing marker.
C9_Witness ==
    /\ FrontMatterExtracted
    /\ OpensWithMarker
    /\ LaterMarkers = {}
    /\ Len(DocumentLines) >= 3
    /\ \E k \in 2..Len(DocumentLines) : DocumentLines[k] = "k: v"
    /\ metadata = EmptyMetadata
    /\ StartsWith(html, "---")

\* C10: a document that opens with --- and has a later --- line yields the
\* lines strictly between the two markers as the metadata block and the
\* lines after the closing marker as the body, whatever its length.
C10_BlockAndBodySplit ==
    (FrontMatterExtracted /\ OpensWithMarker /\ LaterMarkers # {})
        => LET close == MinOfSet(LaterMarkers)
           IN  /\ metadata =
                     parseYaml(Join(SubSeq(DocumentLines, 2, close - 1), "\n"))
               /\ html = Join(SubSeq(DocumentLines, close + 1,
                                     Len(DocumentLines)), "\n")

-----------------------------------------------------------------------------
(* Reading the tags back out of a stage's output.                          *)

\* The spellings of the opening and closing tags of the elements names:
\* <n>, <n ...> and </n>.
TagPatterns(names) ==
    {[text |-> "<" \o n \o ">", name |-> n, open |-> TRUE] : n \in names}
    \cup {[text |-> "<" \o n \o " ", name |-> n, open |-> TRUE] : n \in names}
    \cup {[text |-> "</" \o n \o ">", name |-> n, open |-> FALSE] : n \in names}

\* The tags of the elements names in text, in the order they occur.
TagsOf(text, names) ==
    LET patterns == TagPatterns(names)
        TagAt(k) == CHOOSE p \in patterns : StartsWithAt(text, k, p.text)
        at == {k \in 1..Len(text) :
                  /\ Ch(text, k) = "<"
                  /\ \E p \in patterns : StartsWithAt(text, k, p.text)}
        \* the n-th position of at, in increasing order
        Nth(n) == CHOOSE k \in at : Cardinality({j \in at : j <= k}) = n
    IN  [n \in 1..Cardinality(at) |->
            [name |-> TagAt(Nth(n)).name, open |-> TagAt(Nth(n)).open]]

\* How many opening (closing) tags of element name there are in tags.
CountOf(tags, name, open) ==
    Cardinality({k \in 1..Len(tags) : tags[k] = [name |-> name, open |-> open]})

\* The stack-based validator: an opening tag is pushed, a closing tag must
\* match the top of the stack and pops it, and the stack ends empty.
ProperlyNested(tags) ==
    LET RECURSIVE V(_, _)
        V(k, stack) ==
            IF k > Len(tags) THEN stack = <<>>
            ELSE IF tags[k].open THEN V(k + 1, Append(stack, tags[k].name))
            ELSE /\ Len(stack) > 0
                 /\ stack[Len(stack)] = tags[k].name
                 /\ V(k + 1, SubSeq(stack, 1, Len(stack) - 1))
    IN  V(1, <<>>)

-----------------------------------------------------------------------------
(* Properties of processListsImproved.                                     *)

ListReturned == pc = "returned"

\* The list tags of the output so far.
ListTags == TagsOf(Join(result, "\n"), {"ul", "ol", "li"})

\* The open frames of one type.
FramesOf(type) ==
    Cardinality({k \in 1..Len(listStack) : listStack[k].type = type})

\* C1: the list tags of the stage's output are properly nested: the
\* stack-based validator accepts them.
C1_ListTagsProperlyNested == ListReturned => ProperlyNested(ListTags)

\* C2: as many </ul> as <ul> and as many </ol> as <ol> in the output of the
\* stage, whose frame stack is empty when it returns.  While the stage
\* runs, the tags still owed are those of the frames on the stack.
C2_ListTagsBalanced ==
    LET tags == ListTags
    IN  /\ \A type \in {"ul", "ol"} :
              CountOf(tags, type, TRUE) - CountOf(tags, type, FALSE)
                  = FramesOf(type)
        /\ ListReturned => listStack = <<>>

\* Bullet lists three levels deep and a numbered list, all closed at return.
C2_Witness ==
    /\ ListReturned
    /\ CountOf(ListTags, "ul", TRUE) = 3
    /\ CountOf(ListTags, "ul", FALSE) = 3
    /\ CountOf(ListTags, "ol", TRUE) = 1
    /\ CountOf(ListTags, "ol", FALSE) = 1

-----------------------------------------------------------------------------
(* Properties of processTables.                                            *)

TableNames == {"table", "thead", "tbody", "tr", "th", "td"}

\* The table tags of the output so far.
TableTags == TagsOf(Join(result, "\n"), TableNames)

\* Every opening tag of tags is followed by a closing tag of its own: a
\* closing tag closes the last element of its name still open, and no
\* element is open at the end.
EveryOpenedIsClosed(tags) ==
    LET RECURSIVE V(_, _)
        V(k, open) ==
            IF k > Len(tags) THEN open = <<>>
            ELSE IF tags[k].open THEN V(k + 1, Append(open, tags[k].name))
            ELSE LET same == {j \in 1..Len(open) : open[j] = tags[k].name}
                 IN  IF same = {} THEN V(k + 1, open)
                     ELSE V(k + 1, SubSeq(open, 1, MaxOfSet(same) - 1)
                                   \o SubSeq(open, MaxOfSet(same) + 1, Len(open)))
    IN  V(1, <<>>)

\* C4: every <table>, <thead><tr>, <tbody> and <tr> the table stage opens is
\* closed when the stage returns.
C4_TableTagsClosed == (pc = "returned") => EveryOpenedIsClosed(TableTags)

\* Two tables in one input: the first ends at a line without a |, the
\* second is still open at end of input.
C4_Witness ==
    /\ pc = "returned"
    /\ inTable
    /\ CountOf(TableTags, "table", TRUE) = 2
    /\ CountOf(TableTags, "table", FALSE) = 2
    /\ \E k \in 1..Len(result) : result[k] = "</tbody></table>" /\ k < Len(result)
    /\ result[Len(result)] = "</tbody></table>"

\* A separator row: a line with a | and at least one dash that is otherwise
\* made of dashes, colons, pipes and white space only.
IsSeparatorRow(line) ==
    /\ Includes(line, "|")
    /\ Includes(line, "-")
    /\ \A k \in 1..Len(line) : Ch(line, k) \in {"-", ":", "|"} \cup WsChars

\* The body rows and the cells of rows: the <tr> lines and the <td> lines.
RowLines(res) ==
    Cardinality({k \in 1..Len(res) :
                    res[k] = "<tr>" \/ StartsWith(res[k], "<td>")})

\* C5: reading a separator row, of any number of columns, adds no <tr> row
\* and no cell of its own to the output of the table stage.
C5_SeparatorRowAddsNoRow ==
    [][(pc = "processTables" /\ i' = i + 1 /\ IsSeparatorRow(lines'[i']))
          => RowLines(result') = RowLines(result)]_vars

-----------------------------------------------------------------------------
(* Properties of processParagraphsImproved.                                *)

\* A plain-text line: not blank, no leading white space, no markup.
IsPlainText(line) ==
    /\ ParagraphBranch(line) = "text"
    /\ ~IsWs(Ch(line, 1))

\* The runs of consecutive text lines of the input.
TextRuns ==
    Cardinality({k \in 1..Len(lines) :
                    /\ ParagraphBranch(lines[k]) = "text"
                    /\ k = 1 \/ ParagraphBranch(lines[k - 1]) # "text"})

\* The paragraph elements of the output.
ParagraphElements == {k \in 1..Len(result) : StartsWith(result[k], "<p>")}

\* C7: two consecutive plain-text lines come out inside one paragraph
\* element, joined by <br>; the output has one paragraph element for each
\* run of consecutive text lines, never one for each line of a run.
C7_ConsecutiveLinesShareParagraph ==
    (pc = "returned") =>
        /\ Cardinality(ParagraphElements) = TextRuns
        /\ \A k \in 1..(Len(lines) - 1) :
              (IsPlainText(lines[k]) /\ IsPlainText(lines[k + 1])) =>
                 \E e \in ParagraphElements :
                    /\ EndsWith(result[e], "</p>")
                    /\ Includes(result[e], lines[k] \o "<br>" \o lines[k + 1])

\* The input of the claim: paragraph line 1 directly followed by paragraph
\* line 2.
C7_Witness ==
    /\ pc = "returned"
    /\ lines = <<"paragraph line 1", "paragraph line 2">>
    /\ result = <<"<p>paragraph line 1<br>paragraph line 2</p>">>

-----------------------------------------------------------------------------
(* Properties of parse and convertToHtml, stated on the state parse        *)
(* returns in: html holds the final HTML.                                  *)

ParseReturned == pc = "done"

\* The code blocks of text: from each <pre><code to the first </code></pre>
\* after it.
CodeBlocksOf(text) ==
    {Sub(text, k, IndexFrom(text, "</code></pre>", k) + 12) :
        k \in {j \in 1..Len(text) :
                  /\ StartsWithAt(text, j, "<pre><code")
                  /\ IndexFrom(text, "</code></pre>", j) # 0}}

\* What processCodeBlocks makes of the fences of the body: the fenced text,
\* HTML-escaped, inside pre and code.
EscapedFences ==
    CodeBlocksOf(processCodeBlocks(extractYamlHeader(markdown).content))

\* C3: the text of every matched fence is in the final HTML as
\* processCodeBlocks left it, HTML-escaped and otherwise unchanged: no later
\* stage rewrites any part of it.
C3_FencedTextUntouched ==
    ParseReturned => \A block \in EscapedFences : Includes(html, block)

\* The tags of the example's heading and lists, in the order the claim gives:
\* the nested ul opens after the second li opens and closes before it closes.
ExampleTags ==
    LET o(n) == [name |-> n, open |-> TRUE]
        c(n) == [name |-> n, open |-> FALSE]
    IN  <<o("h1"), c("h1"),
          o("ul"),
            o("li"), c("li"),
            o("li"),
              o("ul"), o("li"), c("li"), c("ul"),
            c("li"),
          c("ul")>>

\* C6: for the example document parse returns the metadata title Hello and
\* categories a, b, and HTML holding an h1 with Heading, then one ul of two
\* li, the second of which holds the nested ul with its one li nested.
C6_ExampleDocument ==
    (ParseReturned /\ markdown = ExampleDocument) =>
        /\ metadata = [title |-> "Hello", categories |-> <<"a", "b">>]
        /\ Includes(html, "<h1>Heading</h1>")
        /\ Includes(html, "<li>item1</li>")
        /\ Includes(html, "<li>nested</li>")
        /\ TagsOf(html, {"h1", "ul", "ol", "li"}) = ExampleTags

-----------------------------------------------------------------------------
(* Properties of parseYaml.                                                *)

\* The line read last.
LastLine == lines[i]

\* C11: after a line key: value of a plain key and a plain value, metadata
\* holds the entry key -> value, surrounding white space trimmed; when the
\* line is the whole block it holds exactly that entry.
C11_PlainEntryRoundTrip ==
    \A e \in PlainEntries :
        (pc \in {"parseYaml", "returned"} /\ i >= 1 /\ LastLine = e.line) =>
            /\ e.key \in DOMAIN metadata
            /\ metadata[e.key] = e.value
            /\ i = 1 => DOMAIN metadata = {e.key}

\* The bracketed lines of YamlLines, each with its key and the pieces its
\* value is made of: a quoted item is split at its comma like any other and
\* keeps its quotes.
BracketedEntries ==
    {[line |-> "tags: [a, b, c]", key |-> "tags", items |-> <<"a", "b", "c">>],
     [line |-> "t: [ x ,y]", key |-> "t", items |-> <<"x", "y">>],
     [line |-> "q: [\"a, b\", 'c']", key |-> "q",
      items |-> <<"\"a", "b\"", "'c'">>],
     [line |-> "e: []", key |-> "e", items |-> <<"">>]}

\* C12: a value enclosed in [ and ] is parsed to the sequence of its
\* comma-separated pieces, each trimmed, in source order; a comma inside a
\* quoted item splits it, and the pieces keep their quotes.
C12_BracketedValueIsSequence ==
    \A e \in BracketedEntries :
        (pc \in {"parseYaml", "returned"} /\ i >= 1 /\ LastLine = e.line) =>
            /\ e.key \in DOMAIN metadata
            /\ metadata[e.key] = e.items

\* tags: [a, b, c] and the line with a quoted item, parsed in one block.
C12_Witness ==
    /\ pc = "returned"
    /\ lines = <<"tags: [a, b, c]", "q: [\"a, b\", 'c']">>
    /\ metadata = [tags |-> <<"a", "b", "c">>, q |-> <<"\"a", "b\"", "'c'">>]

-----------------------------------------------------------------------------
(* Properties of parse as a whole.                                         *)

CurrentReturn == [markdown |-> markdown, html |-> html, metadata |-> metadata]

FenceLines ==
    {k \in 1..Len(DocumentLines) : StartsWith(DocumentLines[k], Fence)}

\* The last fence line of the document opens a fence that nothing closes.
HasUnterminatedFence ==
    ~OpensWithMarker /\ Cardinality(FenceLines) % 2 = 1

\* C15: a fence left open at end of input is closed there: the final HTML
\* ends with the closed code block of the text after the opening fence, and
\* no fence marker is left in it as text.
C15_OpenFenceClosedAtEnd ==
    (ParseReturned /\ HasUnterminatedFence) =>
        /\ Includes(html, "<pre><code")
        /\ EndsWith(html, "</code></pre>")
        /\ ~Includes(html, Fence)

\* C16: convertToHtml runs its stages in the one fixed order code fences,
\* rules, headings, tables, lists, bold, strikethrough, inline code, images,
\* links, paragraphs: every step of it after the front matter is split off is
\* the next stage of that order applied to the whole text the stage before
\* left, so no stage runs twice and none is skipped.
C16_StagesInFixedOrder ==
    [][pc # "parse" =>
         \E k \in 1..Len(ClaimedOrder) :
             /\ pc = ClaimedOrder[k]
             /\ pc' = IF k = Len(ClaimedOrder) THEN "done"
                      ELSE ClaimedOrder[k + 1]
             /\ html' = StageOutput(k, html)]_vars

\* A document has gone through all the stages, the first and the last of
\* which both left their mark.
C16_Witness ==
    /\ pc = "done"
    /\ Includes(html, "<pre><code")
    /\ Includes(html, "<p>")

\* The positions of pat in s.
Occurrences(s, pat) ==
    {k \in 1..(Len(s) - Len(pat) + 1) : StartsWithAt(s, k, pat)}

\* The body lines that consist solely of ---, ___ or *** and whitespace.
RuleLines(body) ==
    LET ls == Split(body, "\n")
    IN  {k \in 1..Len(ls) : Trim(ls[k]) \in {"---", "___", "***"}}

IsTextLine(line) ==
    Trim(line) # "" /\ Ch(Trim(line), 1) # "<"

\* C18: every text line of the paragraph stage's input, a line with a | or
\* with an inline span included, comes out inside a paragraph element, and
\* two consecutive text lines come out in the same one.
C18_TextLinesAreInParagraphs ==
    (pc = "returned") =>
        /\ \A k \in 1..Len(lines) :
              IsTextLine(lines[k]) =>
                 \E e \in ParagraphElements :
                    /\ EndsWith(result[e], "</p>")
                    /\ Includes(result[e], Trim(lines[k]))
        /\ \A k \in 1..(Len(lines) - 1) :
              (IsTextLine(lines[k]) /\ IsTextLine(lines[k + 1])) =>
                 \E e \in ParagraphElements :
                    /\ Includes(result[e], Trim(lines[k]))
                    /\ Includes(result[e], Trim(lines[k + 1]))

-----------------------------------------------------------------------------
(* Properties of listStack.                                                *)

\* The levels of the open frames, bottom to top.
StackLevels == [k \in 1..Len(listStack) |-> listStack[k].level]

\* C19: at every point of the list stage the levels of the frames on
\* listStack are strictly increasing from bottom to top; no two open frames
\* share a level.
C19_StackLevelsIncrease ==
    \A k \in 1..(Len(listStack) - 1) :
        listStack[k].level < listStack[k + 1].level

\* Three frames were open at levels 0, 1 and 2; an ordered item of level 1
\* then closed the deepest and took the place of the unordered frame of
\* level 1.
C19_Witness ==
    /\ pc = "processListsImproved"
    /\ lines = <<"- a", "  - b", "    - c", "  3. e">>
    /\ StackLevels = <<0, 1>>
    /\ listStack[2].type = "ol"

\* The level and kind of the open frames, bottom to top.
FrameKinds(stack) ==
    [k \in 1..Len(stack) |-> <<stack[k].level, stack[k].type>>]

\* The number of lines of res that are the list tag.
LineCount(res, tag) == Cardinality({k \in 1..Len(res) : res[k] = tag})

\* C20: when the list stage has read a list-item line of level L and kind K,
\* the top frame is (L, K); the frames of a level above L are gone and one
\* closing tag was emitted for each; a frame of level L of the other kind is
\* gone too, closed by its tag, and a newly opened frame of kind K with its
\* opening tag stands in its place; the frames below are as they were; and
\* when the top frame already was (L, K) no list tag is emitted.
C20_ItemLineAdjustsStack ==
    [][(/\ pc = "processListsImproved"
        /\ i' = i + 1
        /\ parseListItem(lines'[i']).type # "null") =>
         LET info == parseListItem(lines'[i'])
             top == <<info.indentLevel, info.type>>
             before == FrameKinds(listStack)
             after == FrameKinds(listStack')
             Stays(f) == f[1] < top[1] \/ f = top
             kept == SelectSeq(before, Stays)
             closed(kind) ==
                 Cardinality({k \in 1..Len(before) :
                                 ~Stays(before[k]) /\ before[k][2] = kind})
             opened == IF Len(kept) > 0 /\ kept[Len(kept)] = top
                       THEN 0 ELSE 1
             emitted(tag) == LineCount(result', tag) - LineCount(result, tag)
         IN  /\ Len(after) > 0 /\ after[Len(after)] = top
             /\ after = IF opened = 1 THEN Append(kept, top) ELSE kept
             /\ \A kind \in {"ul", "ol"} :
                   /\ emitted("</" \o kind \o ">") = closed(kind)
                   /\ emitted("<" \o kind \o ">")
                        = IF kind = top[2] THEN opened ELSE 0
             /\ (Len(before) > 0 /\ before[Len(before)] = top) =>
                   \A tag \in {"<ul>", "</ul>", "<ol>", "</ol>"} :
                       emitted(tag) = 0]_vars

\* Frames were open at levels 0, 1 and 2, all unordered; an ordered item of
\* level 0 closed the two deeper ones and the unordered list of level 0, and
\* opened an ordered list in its place.
C20_Witness ==
    /\ pc = "processListsImproved"
    /\ lines = <<"- a", "  - b", "    - c", "1. d">>
    /\ FrameKinds(listStack) = <<(<<0, "ol">>)>>
    /\ LineCount(result, "</ul>") = 3
    /\ LineCount(result, "<ol>") = 1

-----------------------------------------------------------------------------
(* Properties of the lines of the list stage.                              *)

\* The state of the list stage after its first n lines.
ListStateAfter(n) ==
    LET RECURSIVE F(_, _)
        F(k, st) == IF k > n THEN st ELSE F(k + 1, ListStep(st, lines[k]))
    IN  F(1, ListStart)

\* The first line after line k that is not blank; 0 when there is none.
NextNonBlank(k) ==
    LET rest == {m \in (k + 1)..Len(lines) : Trim(lines[m]) # ""}
    IN  IF rest = {} THEN 0 ELSE MinOfSet(rest)

\* C21: a blank line read while a list is open is absorbed (the stacks stay
\* as they are and nothing is emitted for it) when the next line that is not
\* blank is a list-item line; otherwise all open frames close and the blank
\* line is emitted as it is.
C21_BlankLineLooksAhead ==
    \A k \in 1..Len(lines) :
        LET before == ListStateAfter(k - 1)
            after == ListStateAfter(k)
            next == NextNonBlank(k)
        IN  (Trim(lines[k]) = "" /\ before.listStack # <<>>) =>
               IF next # 0 /\ parseListItem(lines[next]).type # "null"
               THEN after = before
               ELSE (next # 0 \/ pc = "returned") =>
                       /\ after.listStack = <<>>
                       /\ after.result[Len(after.result)] = lines[k]

\* C22: a line that is not blank and not a list-item line, read while a list
\* is open, closes all open frames and is then emitted unchanged, whether it
\* is a heading-pattern line, a table-pattern line or any other line,
\* indented or not.
C22_OtherLineClosesLists ==
    [][(/\ pc = "processListsImproved"
        /\ i' = i + 1
        /\ listStack # <<>>
        /\ Trim(lines'[i']) # ""
        /\ parseListItem(lines'[i']).type = "null") =>
         /\ listStack' = <<>>
         /\ result'[Len(result')] = lines'[i']]_vars

\* C23: a numbered frame keeps a running counter; an item whose number
\* differs from the counter plus one puts the frame into explicit numbering
\* and is rendered with its own number (so is a second item written 1. after
\* a first item 1.); an item read while the frame is not in explicit
\* numbering and whose number is the counter plus one increments the counter.
C23_ExplicitNumbering ==
    [][(/\ pc = "processListsImproved"
        /\ i' = i + 1
        /\ parseListItem(lines'[i']).type = "ol") =>
         LET info == parseListItem(lines'[i'])
             frame == listStack'[Len(listStack')]
             continued ==
                 /\ Len(listStack') <= Len(listStack)
                 /\ listStack[Len(listStack')].type = "ol"
                 /\ listStack[Len(listStack')].level = info.indentLevel
             previous == IF continued
                         THEN listStack[Len(listStack')].counter ELSE 0
             wasExplicit == continued
                            /\ listStack[Len(listStack')].explicitNumbering
             explicit == wasExplicit \/ info.orderNumber # previous + 1
             counter == IF explicit THEN info.orderNumber ELSE previous + 1
         IN  /\ frame.explicitNumbering = explicit
             /\ frame.counter = counter
             /\ StartsWith(result'[Len(result')],
                           "<li value=\"" \o ToString(counter) \o "\">")]_vars

-----------------------------------------------------------------------------
(* Properties of parseListItem.                                            *)

\* The number of leading tabs, spaces and full-width spaces of line.
LeadingLength(line) == SkipChars(line, 1, {" ", "\t", FW}) - 1

\* How many of the leading characters of line are c.
LeadingCount(line, c) ==
    Cardinality({k \in 1..LeadingLength(line) : Ch(line, k) = c})

\* C24: the level parseListItem gives a list-item line is the number of its
\* leading tabs plus the floor of half the number of its leading spaces,
\* whatever the mix of tabs, spaces and full-width spaces before the marker.
C24_LevelOfItemLine ==
    (pc = "returned" /\ returned[1].type # "null") =>
        returned[1].indentLevel
            = LeadingCount(markdown, "\t") + (LeadingCount(markdown, " ") \div 2)

-----------------------------------------------------------------------------
(* Properties of the runs of table lines.                                  *)

\* Line k of the input contains a |.
HasPipe(k) == Includes(lines[k], "|")

\* The first lines of the maximal runs of lines with a |.
RunStarts == {k \in 1..Len(lines) : HasPipe(k) /\ (k = 1 \/ ~HasPipe(k - 1))}

\* The lines of the run that starts at a.
RunOf(a) == {k \in a..Len(lines) : \A j \in a..k : HasPipe(j)}

\* The lines of the run starting at a that follow its first separator row
\* and are no separator row themselves.
BodyLinesOf(a) ==
    {k \in RunOf(a) :
        /\ ~isSeparatorLine(Trim(lines[k]))
        /\ \E j \in a..(k - 1) : isSeparatorLine(Trim(lines[j]))}

\* The n-th smallest element of a set of numbers.
NthOf(S, n) == CHOOSE x \in S : Cardinality({y \in S : y <= x}) = n

\* C25: every maximal run of consecutive lines with a | comes out of the
\* table stage as one table: there is one <table> for each run, its header
\* cells are the cells of the first line of the run, no line of the run is
\* left in the output as it was, and each line after the separator row is a
\* body row.
C25_RunOfPipeLinesIsOneTable ==
    (pc = "returned") =>
        LET tables == {j \in 1..Len(result) : result[j] = "<table>"}
        IN  /\ Cardinality(tables) = Cardinality(RunStarts)
            /\ \A n \in 1..Cardinality(RunStarts) :
                  LET a == NthOf(RunStarts, n)
                      j == NthOf(tables, n)
                      cells == parseTableRow(lines[a])
                  IN  /\ j + 1 + Len(cells) <= Len(result)
                      /\ \A c \in 1..Len(cells) :
                            result[j + 1 + c] = "<th>" \o cells[c] \o "</th>"
            /\ \A k \in 1..Len(lines) :
                  HasPipe(k) => \A j \in 1..Len(result) : result[j] # lines[k]
            /\ LineCount(result, "<tr>")
                 = Cardinality(UNION {BodyLinesOf(a) : a \in RunStarts})

-----------------------------------------------------------------------------
(* Properties of the inline substitutions.                                 *)

\* What convertToHtml's order of the five substitutions makes of text.
InlineInSourceOrder(text) ==
    processLinks(processImages(processInlineCode(
        processStrikethrough(processBold(text)))))

\* C26: the five inline substitutions are order-independent: applied to a
\* text in any order they give what the order of convertToHtml gives.
C26_InlineOrderIndependent ==
    (pc = "inline" /\ Len(result) = 5) => html = InlineInSourceOrder(markdown)

\* The texts a code span is written around.
MarkedTexts == {"**x**", "~~x~~", "![a](s)", "[t](h)"}

\* C27: text inside an inline code span is protected from the other inline
\* substitutions: after the five substitutions in the order of
\* convertToHtml, a code span around **x**, ~~x~~, an image or a link is a
\* code element holding that text literally, with no strong, del, img or a
\* element.
C27_CodeSpanProtected ==
    (pc = "inline" /\ result = SubSeq(ClaimedOrder, 6, 10)) =>
        \A inner \in MarkedTexts :
            markdown = BT \o inner \o BT =>
                html = "<code>" \o inner \o "</code>"

-----------------------------------------------------------------------------
(* Properties of processHeadings.                                          *)

\* What the heading stage is to make of one line: a line of 1 to 6 #, white
\* space and text becomes the heading of that level with the text trimmed,
\* any other line stays as it is.
HeadingOfLine(line) ==
    LET h == CountHashes(line, 1)
        text == Trim(Sub(line, h + 2, Len(line)))
    IN  IF h >= 1 /\ h <= 6 /\ IsWs(Ch(line, h + 1)) /\ text # ""
        THEN "<h" \o ToString(h) \o ">" \o text \o "</h" \o ToString(h) \o ">"
        ELSE line

\* C28: the heading stage rewrites the lines of 1 to 6 leading #, white
\* space and text on the same line, each to the heading of its level with
\* the text trimmed, and leaves every other line (7 or more #, an indented
\* #, only # characters) as it is; its output has as many lines as its
\* input.
C28_HeadingsLineByLine ==
    [][pc = "processHeadings" =>
         LET before == Split(html, "\n")
             after == Split(html', "\n")
         IN  /\ Len(after) = Len(before)
             /\ \A k \in 1..Len(before) : after[k] = HeadingOfLine(before[k])]_vars

-----------------------------------------------------------------------------
(* Properties of the entry lines of parseYaml.                             *)

\* The position of the first colon of line.
FirstColon(line) == IndexFrom(line, ":", 1)

\* C29: from a line that is not blank, is no comment and has a colon,
\* parseYaml takes the trimmed text before the first colon as the key and the
\* trimmed text after the first colon, further colons included, as the
\* value: once the line is read, that value (brackets and quotes
\* interpreted) is what is assigned to that key.
C29_SplitAtFirstColon ==
    (/\ pc = "parseYaml"
     /\ i >= 1
     /\ Trim(lines[i]) # ""
     /\ ~StartsWith(Trim(lines[i]), "#")
     /\ Includes(lines[i], ":")) =>
        LET line == lines[i]
            key == Trim(Sub(line, 1, FirstColon(line) - 1))
            value == Trim(Sub(line, FirstColon(line) + 1, Len(line)))
        IN  metadata = SetKey(metadata, key, parseYamlValue(value))

\* A line whose value has two more colons has been read.
C29_Witness ==
    /\ pc = "parseYaml"
    /\ i >= 1
    /\ lines[i] = "u: http://x"
    /\ "u" \in DOMAIN metadata
    /\ metadata["u"] = "http://x"

\* The quote characters.
Quotes == {"\"", "'"}

\* What a value that is not enclosed in brackets is to be stored as: the
\* text between its quotes when a matching pair of quotes encloses it, the
\* value itself otherwise.
Unquoted(value) ==
    IF Len(value) >= 2 /\ Ch(value, 1) \in Quotes
       /\ Ch(value, Len(value)) = Ch(value, 1)
    THEN Sub(value, 2, Len(value) - 1)
    ELSE value

\* C30: a value is unquoted only when a matching pair of double quotes or
\* of single quotes encloses it, and then the text between them is stored;
\* every other value that is not enclosed in brackets (mismatched quotes, one
\* lone quote character, an unquoted string) is stored as its trimmed text.
C30_UnquotedOnlyInMatchingPair ==
    (/\ pc = "parseYaml"
     /\ i >= 1
     /\ Trim(lines[i]) # ""
     /\ ~StartsWith(Trim(lines[i]), "#")
     /\ Includes(lines[i], ":")) =>
        LET line == lines[i]
            key == Trim(Sub(line, 1, FirstColon(line) - 1))
            value == Trim(Sub(line, FirstColon(line) + 1, Len(line)))
        IN  ~(StartsWith(value, "[") /\ EndsWith(value, "]")) =>
                metadata = SetKey(metadata, key, Unquoted(value))

-----------------------------------------------------------------------------
(* Properties of leading white space.                                      *)

\* A plain-text line: white space, then letters, digits and single spaces.
IsPlainLine(line) ==
    LET n == SkipChars(line, 1, {" ", "\t", FW})
    IN  /\ n <= Len(line)
        /\ \A k \in n..Len(line) :
              Ch(line, k) \in AlphaChars \cup DigitChars \cup {" "}
        /\ Ch(line, Len(line)) # " "

\* The entities for the leading white space of line (a tab counts as four
\* spaces, a full-width space keeps its own entity), then the rest of it.
WithEntities(line) ==
    LET n == SkipChars(line, 1, {" ", "\t", FW})
        Entity(c) == IF c = " " THEN "&nbsp;"
                     ELSE IF c = "\t" THEN "&nbsp;&nbsp;&nbsp;&nbsp;"
                     ELSE "&#12288;"
    IN  Join([k \in 1..(n - 1) |-> Entity(Ch(line, k))], "")
        \o Sub(line, n, Len(line))

\* C31: the leading white space of every plain-text line of the body is
\* preserved in the final HTML: the line is there with an entity for each
\* leading space, full-width space and tab in front of its unchanged rest,
\* also when the line directly follows a list item.
C31_LeadingSpacePreserved ==
    ParseReturned =>
        LET body == Split(extractYamlHeader(markdown).content, "\n")
        IN  \A k \in 1..Len(body) :
                IsPlainLine(body[k]) => Includes(html, WithEntities(body[k]))

-----------------------------------------------------------------------------
(* Properties of inTable.                                                  *)

\* C32: the table stage emits </tbody></table> only for a <table> it
\* emitted before and that is still open: at every point inTable is true
\* exactly when one more <table> than </tbody></table> has been emitted, and
\* otherwise there are as many of the one as of the other.
C32_ClosingOnlyForOpenTable ==
    pc \in {"processTables", "returned"} =>
        LineCount(result, "<table>")
            = LineCount(result, "</tbody></table>")
              + (IF inTable /\ pc = "processTables" THEN 1 ELSE 0)

\* C33: when the table stage opens a table at a separator row, the line it
\* takes back from the output and renders as the header row is a line with
\* a |: a line of plain text or any other line that is no table line is
\* never consumed as a header.
C33_HeaderIsTableLine ==
    [][(/\ pc = "processTables"
        /\ i' = i + 1
        /\ LineCount(result', "<table>") > LineCount(result, "<table>")) =>
         /\ Len(result) > 0
         /\ Includes(result[Len(result)], "|")]_vars

-----------------------------------------------------------------------------
(* Properties of the list items.                                           *)

\* C34: every list item the list stage opens is closed exactly once: while
\* the stage runs the <li ...> openings emitted are the </li> closings
\* emitted plus the items still pending, and when it returns there are as
\* many closings as openings and no item is pending.
C34_ItemsClosedOnce ==
    pc \in {"processListsImproved", "returned"} =>
        LET text == Join(result, "\n")
        IN  /\ Cardinality(Occurrences(text, "<li"))
                 = Cardinality(Occurrences(text, "</li>")) + Len(pendingLiClose)
            /\ ListReturned => pendingLiClose = <<>>

\* Items closed on their own line and items closed on a line of their own:
\* a nested list and a continuation line, then the end of the input.
C34_Witness ==
    /\ ListReturned
    /\ lines = <<"- a", "  - b", "  t", "1. d">>
    /\ Cardinality(Occurrences(Join(result, "\n"), "</li>")) = 3
    /\ LineCount(result, "</li>") >= 1


\* C35: in every numbered frame the value rendered for an item is the item's
\* own number or one more than the value rendered for the previous item of
\* the same frame (which the frame keeps as its counter), and the first item
\* of a newly opened frame is rendered with its own number.
C35_ValueIsOwnOrNext ==
    [][(/\ pc = "processListsImproved"
        /\ i' = i + 1
        /\ parseListItem(lines'[i']).type = "ol") =>
         LET info == parseListItem(lines'[i'])
             frame == listStack'[Len(listStack')]
             continued ==
                 /\ Len(listStack') <= Len(listStack)
                 /\ listStack[Len(listStack')].type = "ol"
                 /\ listStack[Len(listStack')].level = info.indentLevel
             Rendered(v) ==
                 result'[Len(result')]
                     = "<li value=\"" \o ToString(v) \o "\">" \o info.content
         IN  /\ frame.type = "ol" /\ frame.level = info.indentLevel
             /\ Rendered(frame.counter)
             /\ IF continued
                THEN frame.counter \in {info.orderNumber,
                                        listStack[Len(listStack')].counter + 1}
                ELSE frame.counter = info.orderNumber]_vars

\* A frame reopened after a nested list: 1, then 3 one level down, then 2.
C35_Witness ==
    /\ ListReturned
    /\ lines = <<"1. d", "  3. e", "  3. e", "1. d">>
    /\ LineCount(result, "<li value=\"1\">d") = 1
    /\ LineCount(result, "<li value=\"3\">e</li>") = 2
    /\ LineCount(result, "<li value=\"2\">d</li>") = 1

\* C38: after every line the list stage processes, pendingLiClose and
\* listStack hold the same levels in the same order: each open frame has
\* exactly one open item waiting to be closed, and each pending item belongs
\* to an open frame.
C38_PendingItemsMatchFrames ==
    pc \in {"processListsImproved", "returned"} =>
        [k \in 1..Len(pendingLiClose) |-> pendingLiClose[k].level] = StackLevels

\* Three frames open, then an item of the other type back at level 1.
C38_Witness ==
    /\ pc = "processListsImproved"
    /\ lines = <<"- a", "  - b", "    - c", "  3. e">>
    /\ StackLevels = <<0, 1>>
    /\ FrameKinds(listStack) = <<(<<0, "ul">>), (<<1, "ol">>)>>
    /\ Len(pendingLiClose) = 2

-----------------------------------------------------------------------------
(* Properties of WordPressClient.postArticle.                              *)

\* The requests of the call that were made by method.
CallsOf(method) == SelectSeq(calls, LAMBDA c : c.request = method)

\* The requests that write the post.
PostWrites ==
    SelectSeq(calls, LAMBDA c : c.request \in {"updatePost", "createPost"})

PostReturned == pc = "returned" /\ Len(PostWrites) > 0

\* existingPost is the first post the search by slug listed or, when that
\* search listed none, a post of the search by title whose title is title.
MatchedBySlugElseTitle ==
    LET bySlug == CallsOf("searchPostBySlug")
        byTitle == CallsOf("searchPostByTitle")
    IN  IF bySlug # <<>> /\ bySlug[1].answer.status = "ok"
           /\ Len(bySlug[1].answer.body) > 0
        THEN existingPost = bySlug[1].answer.body[1]
        ELSE /\ byTitle # <<>>
             /\ byTitle[1].answer.status = "ok"
             /\ \E k \in 1..Len(byTitle[1].answer.body) :
                   existingPost = byTitle[1].answer.body[k]
             /\ existingPost.rendered = title \/ existingPost.raw = title

\* C36: a call of postArticle makes at most one request that writes a post:
\* one by updatePost when findExistingPost returned a post (matched by slug,
\* else by exactly equal title), one by createPost otherwise, never both
\* and none again after a failed response; and the isUpdate flag of the
\* result returned is true exactly in the update case.
C36_OneWriteAndUpdateFlag ==
    /\ Len(PostWrites) <= 1
    /\ PostReturned =>
          /\ PostWrites[1].request
                = IF existingPost # NoPost THEN "updatePost" ELSE "createPost"
          /\ existingPost # NoPost =>
                /\ PostWrites[1].id = existingPost.id
                /\ MatchedBySlugElseTitle
          /\ ("isUpdate" \in DOMAIN returned[1] /\ returned[1].isUpdate)
                <=> existingPost # NoPost

-----------------------------------------------------------------------------
(* Properties of ImageUploader.processMarkdownImages.                      *)

ImagesReturned == pc = "returned" /\ returned # <<>>

\* The URL the upload for image k returned with success; "" when image k
\* was not uploaded, or its upload failed or returned no URL.
UploadedUrl(k) ==
    LET made == SelectSeq(calls,
                    LAMBDA c : c.request = "uploadImage" /\ c.id = k)
    IN  IF made # <<>> /\ uploadImage(made[1].answer).success
        THEN uploadImage(made[1].answer).url ELSE ""

\* markdown from image k on, each image written as its upload decided.
RewrittenFrom(k) ==
    LET RECURSIVE F(_, _)
        F(n, from) ==
            IF n > Len(matches) THEN Sub(markdown, from, Len(markdown))
            ELSE LET match == matches[n]
                     url == UploadedUrl(n)
                 IN  Sub(markdown, from, match.index - 1)
                     \o (IF url # ""
                         THEN "![" \o match.altText \o "](" \o url \o ")"
                         ELSE match.fullMatch)
                     \o F(n + 1, match.index + Len(match.fullMatch))
    IN  F(k, 1)

\* C37: processMarkdownImages rewrites an image reference only when its
\* path is local, the file exists and its upload returned success with a
\* URL; every other image (an http, https or data URL, a missing file, a
\* failed upload) keeps its reference text, the images after it are still
\* processed, and the call returns the markdown.
C37_OnlyUploadedImagesRewritten ==
    ImagesReturned =>
        /\ returned[1] = RewrittenFrom(1)
        /\ \A k \in 1..Len(matches) :
              UploadedUrl(k) # "" => isLocalPath(matches[k].imagePath)

=============================================================================
